---- MODULE Spec2Model ----
(***************************************************************************)
(* SprelfJSON: the type-directed parse / validate / dump engine            *)
(* (ModelElem.py) and record construction, dumping and polymorphic         *)
(* dispatch (JSONModel.py).                                                *)
(*                                                                         *)
(* Python values are tagged records [t |-> <type name>, v |-> <payload>];  *)
(* the outcome of a call is Return(value) or Raise(exception).             *)
(***************************************************************************)
EXTENDS Integers, Sequences, FiniteSets, TLC

\* ------------------------------------------------------------------------
\* Bounds of the model
\* ------------------------------------------------------------------------
MaxLen == 3      \* longest input collection handed to a descriptor
MaxInt == 8      \* raw integers range over 0 .. MaxInt - 1
MaxCalls == 2    \* calls the program makes in one run
MaxInstances == 3 \* instances of one class that the caller holds at a time
MaxThreads == 2   \* threads that resolve a discriminator at the same time

\* ------------------------------------------------------------------------
\* Python values
\* ------------------------------------------------------------------------
PyNone == [t |-> "NoneType"]
PyInt(n) == [t |-> "int", v |-> n]
PyStr(s) == [t |-> "str", v |-> s]
PyBool(b) == [t |-> "bool", v |-> b]
\* a float with an integral value n.0
PyFloat(n) == [t |-> "float", v |-> n]
PyList(xs) == [t |-> "list", v |-> xs]

\* a bytes object: the sequence of its byte values
PyBytes(xs) == [t |-> "bytes", v |-> xs]
PyTuple(xs) == [t |-> "tuple", v |-> xs]
\* a member (or combination of members) of an IntFlag class
PyFlag(cls, names, n) == [t |-> "IntFlag", cls |-> cls, names |-> names, v |-> n]

\* a datetime.timedelta in its normal form: days, seconds of the day
\* (0 .. 86399) and microseconds of the second (0 .. 999999)
PyTimedelta(days, seconds, microseconds) ==
    [t |-> "timedelta", days |-> days, seconds |-> seconds, microseconds |-> microseconds]

\* the Ellipsis singleton (...)
Ellipsis == [t |-> "ellipsis"]

\* the outcome of a call
Return(v) == [ok |-> TRUE, val |-> v]
Raise(e) == [ok |-> FALSE, err |-> e]

\* ------------------------------------------------------------------------
\* Exceptions
\* ------------------------------------------------------------------------
\* ModelElemError(model_elem, message): msg names the message template,
\* on the descriptor's origin (annotated type), n a count in the message.
ModelElemError(self, msg) ==
    [exc |-> "ModelElemError", msg |-> msg, on |-> self.origin, key |-> "", n |-> 0]

ModelElemErrorN(self, msg, n) ==
    [exc |-> "ModelElemError", msg |-> msg, on |-> self.origin, key |-> "", n |-> n]

\* JSONModelError(message) raised by the record layer
JSONModelError(msg, cls, key) ==
    [exc |-> "JSONModelError", msg |-> msg, on |-> cls, key |-> key, n |-> 0]

ValueError(msg) ==
    [exc |-> "ValueError", msg |-> msg, on |-> "", key |-> "", n |-> 0]

\* ModelElemError derives from JSONModelError
IsJSONModelError(e) == e.exc \in {"JSONModelError", "ModelElemError"}

IsModelElemError(e) == e.exc = "ModelElemError"

\* ------------------------------------------------------------------------
\* Declared enum classes (tests: class Color(enum.Enum), class
\* Status(enum.IntEnum), class Permissions(enum.IntFlag))
\* ------------------------------------------------------------------------
Color == <<[name |-> "RED", value |-> PyStr("red")],
           [name |-> "GREEN", value |-> PyStr("green")],
           [name |-> "BLUE", value |-> PyStr("blue")]>>

Status == <<[name |-> "ACTIVE", value |-> PyInt(1)],
            [name |-> "INACTIVE", value |-> PyInt(0)]>>

EnumClasses == {"Color"}

IntEnumClasses == {"Status"}

EnumMembers(cls) == IF cls = "Color" THEN Color ELSE IF cls = "Status" THEN Status ELSE <<>>

\* a member of an Enum or IntEnum class
PyMember(cls, m) ==
    [t |-> IF cls \in IntEnumClasses THEN "IntEnum" ELSE "Enum", cls |-> cls, name |-> m.name, v |-> m.value.v]

KeyError(key) == [exc |-> "KeyError", msg |-> "", on |-> "", key |-> key, n |-> 0]

\* cls[name]: the member called name; KeyError when there is none
EnumGetItem(cls, name) ==
    IF \E i \in DOMAIN EnumMembers(cls) : EnumMembers(cls)[i].name = name
    THEN Return(PyMember(cls, EnumMembers(cls)[CHOOSE i \in DOMAIN EnumMembers(cls) :
                                                  EnumMembers(cls)[i].name = name]))
    ELSE Raise(KeyError(name))

Permissions == <<[name |-> "READ", value |-> 1],
                 [name |-> "WRITE", value |-> 2],
                 [name |-> "EXECUTE", value |-> 4]>>

IntFlagClasses == {"Permissions"}

FlagMembers(cls) == IF cls = "Permissions" THEN Permissions ELSE <<>>

\* n & b # 0 for a single-bit value b
BitSet(n, b) == (n \div b) % 2 = 1

RECURSIVE SumValues(_, _)
SumValues(members, names) ==
    IF members = <<>> THEN 0
    ELSE (IF Head(members).name \in names THEN Head(members).value ELSE 0)
         + SumValues(Tail(members), names)

\* enum.IntFlag.__call__ with the default KEEP boundary: the declared members
\* whose bit is set in n, and the undeclared bits of n kept in the value.
IntFlagCall(cls, n) ==
    LET members == FlagMembers(cls)
        names == {members[i].name : i \in {j \in DOMAIN members : BitSet(n, members[j].value)}}
        known == SumValues(members, names)
    IN  PyFlag(cls, names, known + (n - known))

\* ------------------------------------------------------------------------
\* Python built-ins used by the engine
\* ------------------------------------------------------------------------
Decimal == <<"0", "1", "2", "3", "4", "5", "6", "7", "8", "9">>

\* the numeric value of an int-like value (int, bool, IntFlag)
IntValue(val) ==
    IF val.t = "bool" THEN (IF val.v THEN 1 ELSE 0) ELSE val.v

\* int(x)
int(x) ==
    IF x.t = "str"
    THEN IF \E n \in DOMAIN Decimal : Decimal[n] = x.v
         THEN Return(PyInt((CHOOSE n \in DOMAIN Decimal : Decimal[n] = x.v) - 1))
         ELSE Raise(ValueError("invalid literal for int()"))
    ELSE IF x.t \in {"int", "bool", "IntFlag", "IntEnum", "float"}
    THEN Return(PyInt(IntValue(x)))
    ELSE Raise([exc |-> "TypeError", msg |-> "int() argument", on |-> "", key |-> "", n |-> 0])

\* str(x) on the values an alternate hands to it
str(x) ==
    IF x.t = "str" THEN Return(x)
    ELSE IF x.t = "int" /\ x.v + 1 \in DOMAIN Decimal THEN Return(PyStr(Decimal[x.v + 1]))
    ELSE IF x.t = "int" THEN Return(PyStr(ToString(x.v)))
    ELSE IF x.t = "bool" THEN Return(PyStr(IF x.v THEN "True" ELSE "False"))
    ELSE IF x.t = "NoneType" THEN Return(PyStr("None"))
    ELSE Return(PyStr("<object>"))

Lower(s) ==
    IF s \in {"True", "TRUE", "true"} THEN "true"
    ELSE IF s \in {"False", "FALSE", "false"} THEN "false"
    ELSE s

\* lambda s: s.lower() == "true"
lower_is_true(x) ==
    IF x.t = "str" THEN Return(PyBool(Lower(x.v) = "true"))
    ELSE Raise([exc |-> "AttributeError", msg |-> "lower", on |-> "", key |-> "", n |-> 0])

\* calling a transformer / jsonifier
Call(f, x) ==
    IF f = "int" THEN int(x)
    ELSE IF f = "str" THEN str(x)
    ELSE lower_is_true(x)

\* the characters of the strings that are iterated in the model
Chars(s) ==
    IF s = "" THEN <<>>
    ELSE IF s = "ab" THEN <<"a", "b">>
    ELSE IF s = "abc" THEN <<"a", "b", "c">>
    ELSE IF s = "True" THEN <<"T", "r", "u", "e">>
    ELSE IF s = "RED" THEN <<"R", "E", "D">>
    ELSE IF s = "red" THEN <<"r", "e", "d">>
    ELSE IF s = "PURPLE" THEN <<"P", "U", "R", "P", "L", "E">>
    ELSE IF s = "ACTIVE" THEN <<"A", "C", "T", "I", "V", "E">>
    ELSE IF s = "PENDING" THEN <<"P", "E", "N", "D", "I", "N", "G">>
    ELSE IF s = "-_" THEN <<"-", "_">>
    ELSE IF s = "+/" THEN <<"+", "/">>
    ELSE IF s = "ff" THEN <<"f", "f">>
    ELSE IF s = "0a" THEN <<"0", "a">>
    ELSE IF s = "YQ==" THEN <<"Y", "Q", "=", "=">>
    ELSE IF s = "YWI=" THEN <<"Y", "W", "I", "=">>
    ELSE IF s = "-_8=" THEN <<"-", "_", "8", "=">>
    ELSE IF s = "+/8=" THEN <<"+", "/", "8", "=">>
    ELSE IF s = "abcd-" THEN <<"a", "b", "c", "d", "-">>
    ELSE IF s = "seconds=5" THEN <<"s", "e", "c", "o", "n", "d", "s", "=", "5">>
    ELSE IF s = "days=1,hours=2,minutes=3,seconds=4.5"
    THEN <<"d", "a", "y", "s", "=", "1", ",", "h", "o", "u", "r", "s", "=", "2", ",",
           "m", "i", "n", "u", "t", "e", "s", "=", "3", ",",
           "s", "e", "c", "o", "n", "d", "s", "=", "4", ".", "5">>
    ELSE <<s>>

\* TimeHelpers.TIMEDELTA_REGEX.match(s): <<>> for no match, else the groupdict,
\* in which a group that took no part in the match is None
TIMEDELTA_REGEX(s) ==
    IF s = "seconds=5"
    THEN <<[d |-> PyNone, h |-> PyNone, m |-> PyNone, s |-> PyStr("5"), ms |-> PyNone]>>
    ELSE IF s = "days=1,hours=2,minutes=3,seconds=4.5"
    THEN <<[d |-> PyStr("1"), h |-> PyStr("2"), m |-> PyStr("3"), s |-> PyStr("4"), ms |-> PyStr("5")]>>
    ELSE <<>>

\* timedelta(days=, hours=, minutes=, seconds=, milliseconds=) of small amounts
timedelta(days, hours, minutes, seconds, milliseconds) ==
    PyTimedelta(days + (hours * 3600 + minutes * 60 + seconds) \div 86400,
                (hours * 3600 + minutes * 60 + seconds) % 86400,
                milliseconds * 1000)

\* timedelta(seconds=val / 1000) for an int val: val milliseconds
timedelta_of_millis(val) ==
    PyTimedelta((val \div 1000) \div 86400, (val \div 1000) % 86400, (val % 1000) * 1000)

\* timedelta(seconds=val) for a float val of integral value
timedelta_of_seconds(val) == PyTimedelta(val \div 86400, val % 86400, 0)

\* isinstance(val, Iterable) and isinstance(val, Collection)
IsIterable(val) == val.t \in {"list", "tuple", "str", "bytes"}

IsCollection(val) == val.t \in {"list", "tuple", "str", "bytes"}

\* the elements that iterating val yields, in order
Items(val) ==
    IF val.t = "str" THEN [i \in DOMAIN Chars(val.v) |-> PyStr(Chars(val.v)[i])]
    ELSE IF val.t = "bytes" THEN [i \in DOMAIN val.v |-> PyInt(val.v[i])]
    ELSE val.v

\* isinstance(val, origin) for a class origin
isinstance(val, origin) ==
    CASE origin = "int" -> val.t \in {"int", "bool", "IntFlag", "IntEnum"}
      [] origin = "float" -> val.t = "float"
      [] origin = "str" -> val.t = "str"
      [] origin = "bool" -> val.t = "bool"
      [] origin = "list" -> val.t = "list"
      [] origin = "tuple" -> val.t = "tuple"
      [] origin = "NoneType" -> val.t = "NoneType"
      [] origin = "timedelta" -> val.t = "timedelta"
      [] origin = "bytes" -> val.t = "bytes"
      [] origin \in IntFlagClasses -> val.t = "IntFlag" /\ val.cls = origin
      [] origin \in IntEnumClasses -> val.t = "IntEnum" /\ val.cls = origin
      [] origin \in EnumClasses -> val.t = "Enum" /\ val.cls = origin
      [] OTHER -> FALSE

\* Python's == on the values of the model: numbers compare by value
PyEq(a, b) ==
    IF a.t \in {"int", "bool", "IntFlag", "IntEnum", "float"}
       /\ b.t \in {"int", "bool", "IntFlag", "IntEnum", "float"}
    THEN IntValue(a) = IntValue(b)
    ELSE a = b

\* cls(val): the member whose value equals val; ValueError when there is none
EnumCall(cls, val) ==
    IF \E i \in DOMAIN EnumMembers(cls) : PyEq(EnumMembers(cls)[i].value, val)
    THEN Return(PyMember(cls, EnumMembers(cls)[CHOOSE i \in DOMAIN EnumMembers(cls) :
                                                  PyEq(EnumMembers(cls)[i].value, val)]))
    ELSE Raise(ValueError("is not a valid member"))

\* ------------------------------------------------------------------------
\* Descriptors (ModelElem.py)
\* ------------------------------------------------------------------------
\* A type hint as the declaration writes it: an origin and its parameters.
Hint(origin, args) == [origin |-> origin, args |-> args]

Plain(origin) == Hint(origin, <<>>)

\* ClassHelpers.analyze_type(val_type): the origin and the generic parameters
analyze_type(val_type) == <<val_type.origin, val_type.args>>

\* _BaseModelElem(typ): origin and one _BaseModelElem per generic parameter
\* (the Ellipsis of tuple[X, ...] becomes a descriptor of origin Ellipsis)
RECURSIVE _BaseModelElem(_)
_BaseModelElem(typ) ==
    LET t == analyze_type(typ)[1]
        gen == analyze_type(typ)[2]
    IN  [origin |-> t, generics |-> [i \in DOMAIN gen |-> _BaseModelElem(gen[i])]]

\* AlternateModelElem(typ, transformer, jsonifier); jsonifier "" is None
AlternateModelElem(typ, transformer, jsonifier) ==
    [origin |-> _BaseModelElem(typ).origin, generics |-> _BaseModelElem(typ).generics,
     transformer |-> transformer, jsonifier |-> jsonifier]

\* the default of the default= parameter: the empty tuple ()
NoDefault == PyTuple(<<>>)

\* ModelElem(typ, default=, default_factory=, alternates=, ignored=):
\* _default is () or the one-element tuple (default,); a default that is itself
\* an empty tuple is taken for "no default"; default_factory "" is None.
ModelElem(typ, default, default_factory, alternates, ignored) ==
    [origin |-> _BaseModelElem(typ).origin, generics |-> _BaseModelElem(typ).generics,
     default |-> IF default_factory # "" THEN <<>>
                 ELSE IF default.t # "tuple" \/ Len(default.v) > 0 THEN <<default>>
                 ELSE <<>>,
     default_factory |-> default_factory,
     alternates |-> alternates, ignored |-> ignored]

\* ModelElem.has_default
has_default(self) == Len(self.default) > 0 \/ self.default_factory # ""

\* ModelElem.default, for a descriptor that has one (the factory "list" is list())
default(self) ==
    IF self.default_factory # "" THEN PyList(<<>>) ELSE self.default[1]

IsModelElem(self) == "alternates" \in DOMAIN self

is_optional_type(origin) == origin = "Optional"

is_union_type(origin) == origin = "Union"

isclass(origin) == origin \notin {"Optional", "Union", "Ellipsis", "Iterable", "Iterator"}

\* one more element of a comprehension: the outcome h of the element, then the
\* outcome r of the elements after it; the first exception propagates
Cons(h, r) ==
    IF ~h.ok THEN h
    ELSE IF ~r.ok THEN r
    ELSE Return(<<h.val>> \o r.val)

\* list(...) and tuple(...) of the outcome of a comprehension
AsList(r) == IF r.ok THEN Return(PyList(r.val)) ELSE r

AsTuple(r) == IF r.ok THEN Return(PyTuple(r.val)) ELSE r

\* try: return r / except ModelElemError: go on with rest
ExceptModelElemError(r, rest) ==
    IF r.ok \/ ~IsModelElemError(r.err) THEN r ELSE rest

\* try: return r / except: go on with rest
ExceptAny(r, rest) == IF r.ok THEN r ELSE rest

\* f(p) for the outcome p of the argument
Apply(f, p) == IF p.ok THEN Call(f, p.val) ELSE p

RECURSIVE _parse_value(_, _), parse_each(_, _), parse_zip(_, _), parse_union(_, _, _)

\* [g.parse_value(v) for v in val]: the first failure propagates
parse_each(g, xs) ==
    IF xs = <<>> THEN Return(<<>>)
    ELSE Cons(_parse_value(g, Head(xs)), parse_each(g, Tail(xs)))

\* parse_zip with every element parsed by the first child descriptor
parse_zip_first_child(gs, xs) ==
    IF gs = <<>> \/ xs = <<>> THEN Return(<<>>) ELSE parse_each(Head(gs), xs)

\* tuple(g.parse_value(v) for g, v in zip(self.generics, val))
parse_zip(gs, xs) ==
    IF gs = <<>> \/ xs = <<>> THEN Return(<<>>)
    ELSE Cons(_parse_value(Head(gs), Head(xs)), parse_zip(Tail(gs), Tail(xs)))

\* the union branch: the first child whose parse does not raise ModelElemError
parse_union(self, gs, val) ==
    IF gs = <<>> THEN Raise(ModelElemError(self, "does not meet any of the allowed types"))
    ELSE ExceptModelElemError(_parse_value(Head(gs), val), parse_union(self, Tail(gs), val))

\* the timedelta branch of _parse_value; int(None) of a group that did not
\* match raises TypeError, which the except ValueError clause lets through
parse_timedelta(self, val) ==
    IF isinstance(val, "str")
    THEN IF TIMEDELTA_REGEX(val.v) = <<>>
         THEN Raise(ModelElemError(self, "Unable to parse timedelta string; format is invalid"))
         ELSE LET groups == TIMEDELTA_REGEX(val.v)[1]
              IN  IF \E g \in {groups.d, groups.h, groups.m, groups.s, groups.ms} : ~int(g).ok
                  THEN Raise([exc |-> "TypeError", msg |-> "int() argument", on |-> "", key |-> "", n |-> 0])
                  ELSE Return(timedelta(int(groups.d).val.v, int(groups.h).val.v, int(groups.m).val.v,
                                        int(groups.s).val.v, int(groups.ms).val.v))
    ELSE IF isinstance(val, "int") THEN Return(timedelta_of_millis(IntValue(val)))
    ELSE IF isinstance(val, "float") THEN Return(timedelta_of_seconds(val.v))
    ELSE Raise(ModelElemError(self, "Unable to parse value as a timedelta"))

\* try: r, except ValueError: handler
ExceptValueError(r, handler) ==
    IF ~r.ok /\ r.err.exc = "ValueError" THEN handler ELSE r

\* the IntEnum branch of _parse_value: self.origin(val) for an int and
\* self.origin[val] for a str, both under except ValueError; the KeyError of
\* self.origin[val] is not caught
parse_IntEnum(self, val) ==
    IF isinstance(val, "int")
    THEN ExceptValueError(EnumCall(self.origin, val),
                          Raise(ModelElemError(self, "Unable to parse IntEnum from integer")))
    ELSE IF isinstance(val, "str")
    THEN ExceptValueError(EnumGetItem(self.origin, val.v),
                          Raise(ModelElemError(self, "Unable to parse IntEnum from string")))
    ELSE Raise(ModelElemError(self, "Unable to parse value as an IntEnum"))

\* the Enum branch of _parse_value: self.origin[val] for a str (except
\* ValueError: pass), then self.origin(val)
parse_Enum(self, val) ==
    IF isinstance(val, "str")
    THEN ExceptValueError(EnumGetItem(self.origin, val.v),
                          ExceptValueError(EnumCall(self.origin, val),
                                           Raise(ModelElemError(self, "Unable to parse value as an Enum; Value is unrecognized"))))
    ELSE ExceptValueError(EnumCall(self.origin, val),
                          Raise(ModelElemError(self, "Unable to parse value as an Enum; Value is unrecognized")))

\* parse_IntFlag accepting only the value of one declared member
parse_IntFlag_single_member(self, val) ==
    IF isinstance(val, "int")
    THEN IF \E i \in DOMAIN FlagMembers(self.origin) : FlagMembers(self.origin)[i].value = IntValue(val)
         THEN Return(IntFlagCall(self.origin, IntValue(val)))
         ELSE Raise(ModelElemError(self, "Unable to parse IntFlag"))
    ELSE Raise(ModelElemError(self, "Unable to parse value as an IntFlag"))

\* the IntFlag branch of _parse_value: self.origin(val) for an int, which the
\* KEEP boundary of enum.IntFlag never refuses
parse_IntFlag(self, val) ==
    IF isinstance(val, "int")
    THEN Return(IntFlagCall(self.origin, IntValue(val)))
    ELSE Raise(ModelElemError(self, "Unable to parse value as an IntFlag"))

\* the base64 alphabet of binascii: the character of each 6-bit value
Base64Alphabet ==
    <<"A", "B", "C", "D", "E", "F", "G", "H", "I", "J", "K", "L", "M",
      "N", "O", "P", "Q", "R", "S", "T", "U", "V", "W", "X", "Y", "Z",
      "a", "b", "c", "d", "e", "f", "g", "h", "i", "j", "k", "l", "m",
      "n", "o", "p", "q", "r", "s", "t", "u", "v", "w", "x", "y", "z",
      "0", "1", "2", "3", "4", "5", "6", "7", "8", "9", "+", "/">>

\* s.translate(bytes.maketrans(altchars, b'+/')) on one character
translate_altchars(ch, altchars) ==
    IF ch = altchars[1] THEN "+" ELSE IF ch = altchars[2] THEN "/" ELSE ch

RECURSIVE a2b_base64(_, _, _, _, _), a2b_sextet(_, _, _, _, _)
\* binascii.a2b_base64(s) outside strict mode, on the characters of s that
\* are left, in quad position quad_pos with pads pad characters seen, the
\* bits leftchar carried over and the bytes out made so far: a character
\* outside the alphabet is passed over, a pad that completes a quad ends the
\* decoding, and input that ends inside a quad is an error
a2b_base64(chars, quad_pos, pads, leftchar, out) ==
    IF chars = <<>>
    THEN IF quad_pos # 0 THEN Raise(ValueError("Incorrect padding")) ELSE Return(PyBytes(out))
    ELSE IF Head(chars) = "="
    THEN IF quad_pos >= 2 /\ quad_pos + pads + 1 >= 4
         THEN Return(PyBytes(out))
         ELSE a2b_base64(Tail(chars), quad_pos, IF quad_pos >= 2 THEN pads + 1 ELSE pads,
                         leftchar, out)
    ELSE IF \A n \in DOMAIN Base64Alphabet : Base64Alphabet[n] # Head(chars)
    THEN a2b_base64(Tail(chars), quad_pos, pads, leftchar, out)
    ELSE a2b_sextet(Tail(chars), quad_pos, leftchar, out,
                    (CHOOSE n \in DOMAIN Base64Alphabet : Base64Alphabet[n] = Head(chars)) - 1)

\* the switch on quad_pos for the 6-bit value this_ch
a2b_sextet(chars, quad_pos, leftchar, out, this_ch) ==
    IF quad_pos = 0 THEN a2b_base64(chars, 1, 0, this_ch, out)
    ELSE IF quad_pos = 1
    THEN a2b_base64(chars, 2, 0, this_ch % 16, Append(out, (leftchar * 4) + (this_ch \div 16)))
    ELSE IF quad_pos = 2
    THEN a2b_base64(chars, 3, 0, this_ch % 4, Append(out, (leftchar * 16) + (this_ch \div 4)))
    ELSE a2b_base64(chars, 0, 0, 0, Append(out, (leftchar * 64) + this_ch))

\* base64.b64decode(s, altchars) for a str s and a str altchars
b64decode(s, altchars) ==
    a2b_base64([i \in DOMAIN Chars(s.v) |-> translate_altchars(Chars(s.v)[i], Chars(altchars))],
               0, 0, 0, <<>>)

\* the digits of int(s, 16)
HexDigits == <<"0", "1", "2", "3", "4", "5", "6", "7", "8", "9", "a", "b", "c", "d", "e", "f">>

RECURSIVE hex_value(_, _)
hex_value(chars, acc) ==
    IF chars = <<>> THEN acc
    ELSE hex_value(Tail(chars),
                   (acc * 16) + (CHOOSE n \in DOMAIN HexDigits : HexDigits[n] = Head(chars)) - 1)

\* int(s, 16) of a string of digits
int16(s) ==
    IF Chars(s.v) # <<>> /\ \A i \in DOMAIN Chars(s.v) : \E n \in DOMAIN HexDigits : HexDigits[n] = Chars(s.v)[i]
    THEN Return(hex_value(Chars(s.v), 0))
    ELSE Raise(ValueError("invalid literal for int() with base 16"))

\* ClassHelpers.check_generic_instance(val, Collection, t): val is a
\* collection other than a string and each of its elements is a t
check_generic_instance(val, t) ==
    /\ val.t \in {"list", "tuple", "bytes"}
    /\ \A i \in DOMAIN Items(val) : isinstance(Items(val)[i], t)

\* cls.__base64_altchars__
base64_altchars == <<"-_", "+/">>

RECURSIVE try_altchars(_, _, _)
\* for alt in __base64_altchars__: try: return base64.b64decode(val, alt)
\* except ValueError: pass; then the raise after the loop
try_altchars(self, val, alts) ==
    IF alts = <<>>
    THEN Raise(ModelElemError(self, "Unable to parse string to bytes; is not valid base-64"))
    ELSE ExceptValueError(b64decode(val, Head(alts)), try_altchars(self, val, Tail(alts)))

\* the bytes branch of _parse_value
parse_bytes(self, val) ==
    IF check_generic_instance(val, "int")
    THEN IF \A i \in DOMAIN Items(val) : IntValue(Items(val)[i]) \in 0..255
         THEN Return(PyBytes([i \in DOMAIN Items(val) |-> IntValue(Items(val)[i])]))
         ELSE Raise(ModelElemError(self, "has one or more values outside the range of 0-255"))
    ELSE IF check_generic_instance(val, "str")
    THEN IF \E i \in DOMAIN Items(val) : ~int16(Items(val)[i]).ok
         THEN Raise(ModelElemError(self, "has one or more invalid hexadecimal strings"))
         ELSE IF \A i \in DOMAIN Items(val) : int16(Items(val)[i]).val \in 0..255
         THEN Return(PyBytes([i \in DOMAIN Items(val) |-> int16(Items(val)[i]).val]))
         ELSE Raise(ModelElemError(self, "has one or more hexadecimal values outside the range of 0-255"))
    ELSE IF isinstance(val, "str")
    THEN try_altchars(self, val, base64_altchars)
    ELSE Raise(ModelElemError(self, "Unable to parse value into an object of type"))

\* _BaseModelElem._parse_value
_parse_value(self, val) ==
    IF is_optional_type(self.origin)
    THEN IF val = PyNone THEN Return(PyNone) ELSE _parse_value(self.generics[1], val)
    ELSE IF is_union_type(self.origin)
    THEN parse_union(self, self.generics, val)
    ELSE IF isclass(self.origin)
    THEN CASE self.origin = "list" ->
                IF ~IsIterable(val)
                THEN Raise(ModelElemError(self, "is not iterable; cannot parse as a list"))
                ELSE AsList(parse_each(self.generics[1], Items(val)))
           [] self.origin = "tuple" ->
                IF ~IsCollection(val)
                THEN Raise(ModelElemError(self, "is not a collection; cannot parse as a tuple"))
                ELSE IF Len(self.generics) = 2 /\ self.generics[2].origin = "Ellipsis"
                THEN AsTuple(parse_each(self.generics[1], Items(val)))
                ELSE IF Len(self.generics) # Len(Items(val))
                THEN Raise(ModelElemError(self, "has the wrong number of elements"))
                ELSE AsTuple(parse_zip(self.generics, Items(val)))
           [] OTHER ->
                IF isinstance(val, self.origin) THEN Return(val)
                ELSE IF self.origin = "float" /\ isinstance(val, "int")
                THEN Return(PyFloat(IntValue(val)))
                ELSE IF self.origin = "timedelta"
                THEN parse_timedelta(self, val)
                ELSE IF self.origin \in IntFlagClasses
                THEN parse_IntFlag(self, val)
                ELSE IF self.origin \in IntEnumClasses
                THEN parse_IntEnum(self, val)
                ELSE IF self.origin \in EnumClasses
                THEN parse_Enum(self, val)
                ELSE IF self.origin = "bytes"
                THEN parse_bytes(self, val)
                ELSE Raise(ModelElemError(self, "Unable to parse value into an object of type"))
    ELSE Raise(ModelElemError(self, "Unable to parse value into an object of type"))

RECURSIVE try_alternates_last_first(_, _, _)
\* try_alternates walking self._alternates from the last declared to the first
try_alternates_last_first(self, val, i) ==
    IF i > Len(self.alternates)
    THEN Raise(ModelElemErrorN(self, "Unable to parse value; alternates also failed",
                               Len(self.alternates)))
    ELSE ExceptAny(Apply(self.alternates[Len(self.alternates) + 1 - i].transformer,
                         _parse_value(self.alternates[Len(self.alternates) + 1 - i], val)),
                   try_alternates_last_first(self, val, i + 1))

RECURSIVE try_alternates(_, _, _)
\* the loop over self._alternates of ModelElem.parse_value
try_alternates(self, val, i) ==
    IF i > Len(self.alternates)
    THEN Raise(ModelElemErrorN(self, "Unable to parse value; alternates also failed",
                               Len(self.alternates)))
    ELSE ExceptAny(Apply(self.alternates[i].transformer, _parse_value(self.alternates[i], val)),
                   try_alternates(self, val, i + 1))

\* ModelElem.parse_value (and _BaseModelElem.parse_value for a plain descriptor)
parse_value(self, val) ==
    IF ~IsModelElem(self) THEN _parse_value(self, val)
    ELSE IF self.ignored THEN Return(PyNone)
    ELSE IF Len(self.alternates) = 0 THEN _parse_value(self, val)
    ELSE ExceptAny(_parse_value(self, val), try_alternates(self, val, 1))

RECURSIVE validate(_, _), _validate_type(_, _, _), validate_parsed(_, _)

\* _BaseModelElem.is_valid: validate raised no ModelElemError
is_valid(self, value) == validate(self, value).ok

\* _BaseModelElem._validate_type(val, origin, *generics)
_validate_type(val, origin, generics) ==
    IF val = PyNone /\ origin = "None" THEN TRUE
    ELSE IF isclass(origin)
    THEN CASE origin = "list" ->
                isinstance(val, "list")
                /\ (Len(generics) = 0 \/ \A i \in DOMAIN val.v : is_valid(generics[1], val.v[i]))
           [] origin = "tuple" ->
                IF ~isinstance(val, "tuple") THEN FALSE
                \* generics[1] is Ellipsis: generics holds descriptors, never Ellipsis itself
                ELSE IF Len(generics) = 2 /\ generics[2] = Ellipsis
                THEN \A i \in DOMAIN val.v : is_valid(generics[1], val.v[i])
                ELSE IF Len(generics) # Len(val.v) THEN FALSE
                ELSE \A i \in DOMAIN val.v : is_valid(generics[i], val.v[i])
           [] OTHER -> isinstance(val, origin)
    ELSE IF is_optional_type(origin)
    THEN IF val = PyNone THEN TRUE ELSE is_valid(generics[1], val)
    ELSE IF is_union_type(origin)
    THEN \E i \in DOMAIN generics : _validate_type(val, generics[i].origin, generics[i].generics)
    ELSE FALSE

_is_valid(self, val) == _validate_type(val, self.origin, self.generics)

\* the check of _BaseModelElem.validate on the outcome of parse_value
validate_parsed(self, parsed) ==
    IF ~parsed.ok THEN parsed
    ELSE IF _is_valid(self, parsed.val) THEN parsed
    ELSE Raise(ModelElemError(self, "Schema mismatch"))

\* ModelElem.validate / _BaseModelElem.validate
validate(self, value) ==
    IF IsModelElem(self) /\ self.ignored THEN Return(PyNone)
    ELSE validate_parsed(self, parse_value(self, value))

\* any(issubclass(self.origin, x) for x in (list, set, tuple, Iterable,
\* Iterator)): bytes has __iter__, so it is an Iterable
issubclass_Iterable(origin) == origin \in {"list", "set", "tuple", "bytes"}

RECURSIVE b64_quads(_, _)
\* binascii.b2a_base64: the characters for the bytes xs, three bytes to a
\* quad, the last quad padded with "="
b64_quads(xs, alphabet) ==
    IF xs = <<>> THEN <<>>
    ELSE IF Len(xs) = 1
    THEN <<alphabet[(xs[1] \div 4) + 1], alphabet[((xs[1] % 4) * 16) + 1], "=", "=">>
    ELSE IF Len(xs) = 2
    THEN <<alphabet[(xs[1] \div 4) + 1], alphabet[((xs[1] % 4) * 16) + (xs[2] \div 16) + 1],
           alphabet[((xs[2] % 16) * 4) + 1], "=">>
    ELSE <<alphabet[(xs[1] \div 4) + 1], alphabet[((xs[1] % 4) * 16) + (xs[2] \div 16) + 1],
           alphabet[((xs[2] % 16) * 4) + (xs[3] \div 64) + 1], alphabet[(xs[3] % 64) + 1]>>
         \o b64_quads(SubSeq(xs, 4, Len(xs)), alphabet)

RECURSIVE JoinChars(_)
\* the string made of the characters chars
JoinChars(chars) == IF chars = <<>> THEN "" ELSE Head(chars) \o JoinChars(Tail(chars))

\* ord(ch) of a character of a base64 text
ord(ch) ==
    IF ch = "=" THEN 61 ELSE IF ch = "+" THEN 43 ELSE IF ch = "/" THEN 47
    ELSE IF ch = "-" THEN 45 ELSE IF ch = "_" THEN 95
    ELSE LET n == (CHOOSE k \in DOMAIN Base64Alphabet : Base64Alphabet[k] = ch) - 1
         IN  IF n < 26 THEN 65 + n ELSE IF n < 52 THEN 97 + (n - 26) ELSE 48 + (n - 52)

\* base64.b64encode(s, altchars): the encoding of s as a bytes object, with
\* the two characters of altchars for "+" and "/"; bytes.maketrans takes no
\* str, so a str altchars is a TypeError
b64encode(s, altchars) ==
    IF altchars.t = "str"
    THEN Raise([exc |-> "TypeError", msg |-> "a bytes-like object is required, not 'str'",
                on |-> "", key |-> "", n |-> 0])
    ELSE Return(PyBytes([i \in DOMAIN b64_quads(s.v, Base64Alphabet) |->
                            IF b64_quads(s.v, Base64Alphabet)[i] = "+" THEN altchars.v[1]
                            ELSE IF b64_quads(s.v, Base64Alphabet)[i] = "/" THEN altchars.v[2]
                            ELSE ord(b64_quads(s.v, Base64Alphabet)[i])]))

RECURSIVE dump_value(_, _), dump_each(_, _), dump_union(_, _, _), dump_validated(_, _)

\* [self.generics[0].dump_value(v) for v in parsed]
dump_each(g, xs) ==
    IF xs = <<>> THEN Return(<<>>)
    ELSE Cons(dump_value(g, Head(xs)), dump_each(g, Tail(xs)))

\* the union branch of _dump_value
dump_union(self, gs, val) ==
    IF gs = <<>> THEN Raise(ModelElemError(self, "cannot be dumped as any of the allowed types"))
    ELSE ExceptModelElemError(dump_value(Head(gs), val), dump_union(self, Tail(gs), val))

\* _BaseModelElem._dump_value from the outcome of self.validate(val) on
dump_validated(self, parsed) ==
    IF ~parsed.ok
    THEN IF IsModelElemError(parsed.err)
         THEN Raise(ModelElemError(self, "Unable to dump value; could not be validated"))
         ELSE parsed
    ELSE IF \E x \in {"str", "int", "float", "bool"} : isinstance(parsed.val, x)
    THEN parsed
    ELSE IF issubclass_Iterable(self.origin)
    THEN IF Len(self.generics) > 0
         THEN AsList(dump_each(self.generics[1], Items(parsed.val)))
         ELSE Return(PyList(Items(parsed.val)))
    ELSE IF self.origin = "timedelta"
    THEN Return(PyInt(parsed.val.seconds * 1000))
    ELSE IF self.origin \in IntFlagClasses \cup IntEnumClasses
    THEN Return(PyInt(parsed.val.v))
    ELSE IF self.origin \in EnumClasses
    THEN Return(PyStr(parsed.val.name))
    ELSE IF self.origin = "bytes"
    THEN b64encode(parsed.val, PyStr(base64_altchars[1]))
    ELSE Raise(ModelElemError(self, "Unable to dump value as the defined model type"))

\* _BaseModelElem._dump_value
_dump_value(self, val) ==
    IF self.origin \in {"None", "NoneType"} THEN Return(PyNone)
    ELSE IF is_optional_type(self.origin)
    THEN IF val = PyNone THEN Return(PyNone) ELSE dump_value(self.generics[1], val)
    ELSE IF is_union_type(self.origin)
    THEN dump_union(self, self.generics, val)
    ELSE dump_validated(self, validate(self, val))

RECURSIVE try_jsonifiers(_, _, _)
\* the loop over self._alternates of ModelElem.dump_value
try_jsonifiers(self, val, i) ==
    IF i > Len(self.alternates)
    THEN Raise(ModelElemErrorN(self, "Unable to dump value; alternates also failed",
                               Len(self.alternates)))
    ELSE IF self.alternates[i].jsonifier = "" THEN try_jsonifiers(self, val, i + 1)
    ELSE ExceptAny(Call(self.alternates[i].jsonifier, val), try_jsonifiers(self, val, i + 1))

\* ModelElem.dump_value (and _BaseModelElem.dump_value for a plain descriptor)
dump_value(self, val) ==
    IF ~IsModelElem(self) THEN _dump_value(self, val)
    ELSE IF self.ignored THEN Return(PyNone)
    ELSE IF Len(self.alternates) = 0 THEN _dump_value(self, val)
    ELSE ExceptAny(_dump_value(self, val), try_jsonifiers(self, val, 1))

\* ------------------------------------------------------------------------
\* Ordered dictionaries: sequences of [k |-> key, v |-> value], keys unique
\* ------------------------------------------------------------------------
Keys(d) == {d[i].k : i \in DOMAIN d}

Has(d, key) == key \in Keys(d)

Get(d, key) == d[CHOOSE i \in DOMAIN d : d[i].k = key].v

\* d[key] = val
Put(d, key, val) ==
    IF Has(d, key)
    THEN [i \in DOMAIN d |-> IF d[i].k = key THEN [k |-> key, v |-> val] ELSE d[i]]
    ELSE Append(d, [k |-> key, v |-> val])

RECURSIVE Update_keep_existing(_, _)
\* d.update(e) that leaves the keys d already has as they are
Update_keep_existing(d, e) ==
    IF e = <<>> THEN d
    ELSE Update_keep_existing(IF Has(d, Head(e).k) THEN d ELSE Put(d, Head(e).k, Head(e).v), Tail(e))

RECURSIVE Update(_, _)
\* d.update(e)
Update(d, e) ==
    IF e = <<>> THEN d ELSE Update(Put(d, Head(e).k, Head(e).v), Tail(e))

\* d without key (d.pop(key) leaves this behind)
Pop(d, key) == SelectSeq(d, LAMBDA p : p.k # key)

\* {k: v for k, v in d.items() if keep(k)}
Filter(d, keep(_)) == SelectSeq(d, LAMBDA p : keep(p.k))

\* ------------------------------------------------------------------------
\* The declared record classes (class statements of the program)
\* ------------------------------------------------------------------------
Field(k, v) == [k |-> k, v |-> v]

\* class SimpleModel(JSONModel), tests/TestJSONModel2.py
SimpleModel ==
    [bases |-> <<"JSONModel">>,
     annotations |-> <<Field("string_field", Plain("str")),
                       Field("int_field", Plain("int")),
                       Field("bool_field", Plain("bool"))>>,
     namespace |-> <<Field("__name_field_required__", PyBool(FALSE)),
                     Field("bool_field", PyBool(TRUE))>>]

\* class BaseModel(JSONModel)
BaseModel ==
    [bases |-> <<"JSONModel">>,
     annotations |-> <<Field("base_field", Plain("str")),
                       Field("shared_field", Plain("int"))>>,
     namespace |-> <<Field("shared_field", PyInt(0)),
                     Field("__name_field__", PyStr("__type"))>>]

\* class SubModelA(BaseModel)
SubModelA ==
    [bases |-> <<"BaseModel">>,
     annotations |-> <<Field("__include_defaults_in_json_output__", Plain("bool")),
                       Field("sub_a_field", Plain("str")),
                       Field("shared_field", Plain("int"))>>,
     namespace |-> <<Field("__name_field_required__", PyBool(TRUE)),
                     Field("__allow_null_json_output__", PyBool(TRUE)),
                     Field("__include_defaults_in_json_output__", PyBool(TRUE)),
                     Field("model_identity", PyStr("SubA")),
                     Field("shared_field", PyInt(10))>>]

\* class SubModelB(BaseModel)
SubModelB ==
    [bases |-> <<"BaseModel">>,
     annotations |-> <<Field("__include_defaults_in_json_output__", Plain("bool")),
                       Field("sub_b_field", Plain("float")),
                       Field("shared_field", Plain("int"))>>,
     namespace |-> <<Field("__name_field_required__", PyBool(TRUE)),
                     Field("__allow_null_json_output__", PyBool(TRUE)),
                     Field("__include_defaults_in_json_output__", PyBool(TRUE)),
                     Field("model_identity", PyStr("SubB")),
                     Field("shared_field", PyInt(20))>>]

\* class ModelWithGenericTypes(JSONModel), its two tuple fields (the list, dict,
\* union, optional and set fields are left out)
ModelWithGenericTypes ==
    [bases |-> <<"JSONModel">>,
     annotations |-> <<Field("tuple_int", Hint("tuple", <<Plain("int"), Plain("Ellipsis")>>)),
                       Field("tuple_fixed", Hint("tuple", <<Plain("str"), Plain("int"), Plain("bool")>>))>>,
     namespace |-> <<Field("__name_field_required__", PyBool(FALSE))>>]

\* class ModelWithDefaults(JSONModel); list_with_default is annotated with
\* ModelElem(list[int], default_factory=list)
ModelWithDefaults ==
    [bases |-> <<"JSONModel">>,
     annotations |-> <<Field("default_string", Plain("str")),
                       Field("default_int", Plain("int")),
                       Field("optional_float", Hint("Optional", <<Plain("float")>>)),
                       Field("list_with_default",
                             ModelElem(Hint("list", <<Plain("int")>>), NoDefault, "list", <<>>, FALSE))>>,
     namespace |-> <<Field("__name_field_required__", PyBool(FALSE)),
                     Field("default_string", PyStr("hello")),
                     Field("default_int", PyInt(100)),
                     Field("optional_float", PyNone)>>]

\* class ModelWithIgnoredField(JSONModel); ignored_field is annotated with
\* ModelElem(int, ignored=True)
ModelWithIgnoredField ==
    [bases |-> <<"JSONModel">>,
     annotations |-> <<Field("regular_field", Plain("str")),
                       Field("ignored_field", ModelElem(Plain("int"), NoDefault, "", <<>>, TRUE))>>,
     namespace |-> <<Field("__name_field_required__", PyBool(FALSE))>>]

\* a class whose defaults are empty containers:
\*   plain: int
\*   empty_list: list[int] = []
\*   empty_tuple: tuple = ()
ModelWithEmptyDefaults ==
    [bases |-> <<"JSONModel">>,
     annotations |-> <<Field("plain", Plain("int")),
                       Field("empty_list", Hint("list", <<Plain("int")>>)),
                       Field("empty_tuple", Plain("tuple"))>>,
     namespace |-> <<Field("__name_field_required__", PyBool(FALSE)),
                     Field("empty_list", PyList(<<>>)),
                     Field("empty_tuple", PyTuple(<<>>))>>]

\* class ModelWithEnums(JSONModel) of tests/TestJSONModel2.py
ModelWithEnums ==
    [bases |-> <<"JSONModel">>,
     annotations |-> <<Field("color", Plain("Color")),
                       Field("status", Plain("Status")),
                       Field("permissions", Plain("Permissions"))>>,
     namespace |-> <<Field("__name_field_required__", PyBool(FALSE))>>]

\* class DeepModelA(SubModelA): a class two levels under BaseModel that
\* redeclares base_field with a default and shared_field without one
DeepModelA ==
    [bases |-> <<"SubModelA">>,
     annotations |-> <<Field("deep_field", Plain("int")),
                       Field("base_field", Plain("str")),
                       Field("shared_field", Plain("int"))>>,
     namespace |-> <<Field("model_identity", PyStr("DeepA")),
                     Field("deep_field", PyInt(1)),
                     Field("base_field", PyStr("deep"))>>]

\* class JSONModel itself: one annotation (_MODEL_CACHE), no schema
JSONModel ==
    [bases |-> <<>>,
     annotations |-> <<Field("_MODEL_CACHE", Plain("dict"))>>,
     namespace |-> <<>>]

\* the class statements in program order
ClassOrder == <<"SimpleModel", "ModelWithDefaults", "BaseModel", "SubModelA", "SubModelB",
                "ModelWithGenericTypes", "DeepModelA", "ModelWithIgnoredField",
                "ModelWithEmptyDefaults", "ModelWithEnums">>

Decl(name) ==
    CASE name = "SimpleModel" -> SimpleModel
      [] name = "BaseModel" -> BaseModel
      [] name = "SubModelA" -> SubModelA
      [] name = "SubModelB" -> SubModelB
      [] name = "ModelWithGenericTypes" -> ModelWithGenericTypes
      [] name = "ModelWithDefaults" -> ModelWithDefaults
      [] name = "DeepModelA" -> DeepModelA
      [] name = "ModelWithIgnoredField" -> ModelWithIgnoredField
      [] name = "ModelWithEnums" -> ModelWithEnums
      [] name = "ModelWithEmptyDefaults" -> ModelWithEmptyDefaults
      [] OTHER -> JSONModel

\* k.startswith("_") for the names that occur
startswith_underscore(k) ==
    k \in {"_MODEL_CACHE", "__name", "__type", "__name_field__", "__name_field_required__",
           "__allow_null_json_output__", "__include_defaults_in_json_output__"}

\* ------------------------------------------------------------------------
\* JSONModelMeta.__new__: the schema of a declared class
\* ------------------------------------------------------------------------
\* attributes of the metaclass that hasattr(mcls, field) finds
MetaclassAttrs == {"mro", "register"}

RECURSIVE JSONModelMeta(_), merge_bases(_, _)

\* given_anno.update(base.__annotations__); defaults.update(base.__defaults__)
merge_base(acc, base) ==
    [given_anno |-> Update(acc.given_anno, base.annotations),
     defaults |-> Update(acc.defaults, base.defaults)]

\* for base in reversed(bases): given_anno.update(...); defaults.update(...)
merge_bases(bases, acc) ==
    IF bases = <<>> THEN acc
    ELSE merge_bases(SubSeq(bases, 1, Len(bases) - 1),
                     merge_base(acc, JSONModelMeta(bases[Len(bases)])))

\* full_anno: every annotation as a descriptor, a bare hint wrapped along
\* with the default of its field
meta_full_anno(given_anno, defaults) ==
    [i \in DOMAIN given_anno |->
        Field(given_anno[i].k,
              IF IsModelElem(given_anno[i].v) THEN given_anno[i].v
              ELSE ModelElem(given_anno[i].v,
                             IF Has(defaults, given_anno[i].k)
                             THEN Get(defaults, given_anno[i].k)
                             ELSE NoDefault,
                             "", <<>>, FALSE))]

\* the three attributes set on the class
meta_attrs(given_anno, defaults) ==
    [annotations |-> given_anno, defaults |-> defaults,
     json_model |-> meta_full_anno(given_anno, defaults)]

\* annotated names that are attributes of the metaclass count as defaulted
meta_on_metaclass(given_anno, d3) ==
    LET on_meta == SelectSeq(given_anno, LAMBDA p : p.k \in MetaclassAttrs)
    IN  meta_attrs(given_anno,
                   Update(d3, [i \in DOMAIN on_meta |-> Field(on_meta[i].k, [t |-> "method"])]))

\* defaults: those of the bases, then the namespace values of annotated
\* names, then the defaults of the descriptors that have one
meta_defaults(decl, base_defaults, anno) ==
    LET in_ns == SelectSeq(anno, LAMBDA p : Has(decl.namespace, p.k))
        elems == SelectSeq(anno, LAMBDA p : IsModelElem(p.v) /\ has_default(p.v))
    IN  Update(Update(base_defaults,
                      [i \in DOMAIN in_ns |-> Field(in_ns[i].k, Get(decl.namespace, in_ns[i].k))]),
               [i \in DOMAIN elems |-> Field(elems[i].k, default(elems[i].v))])

\* the class statement decl over the merged annotations anno of its bases
\* and itself
meta_class(decl, base_defaults, anno) ==
    meta_on_metaclass(Filter(anno, LAMBDA k : ~startswith_underscore(k)),
                      Filter(meta_defaults(decl, base_defaults, anno),
                             LAMBDA k : ~startswith_underscore(k)))

meta_merged(decl, m) == meta_class(decl, m.defaults, Update(m.given_anno, decl.annotations))

\* the attributes JSONModelMeta.__new__ gives the class called name:
\* __annotations__, __defaults__ and __json_model__
JSONModelMeta(name) ==
    IF name = "JSONModel"
    THEN [annotations |-> JSONModel.annotations, defaults |-> <<>>, json_model |-> <<>>]
    ELSE meta_merged(Decl(name), merge_bases(Decl(name).bases, [given_anno |-> <<>>, defaults |-> <<>>]))

\* the glue class that JSONModelMeta.__new__ creates under the class called name
glue_name(name) == "_" \o name \o "_Glue"

IsGlue(cls) == \E i \in DOMAIN ClassOrder : cls = glue_name(ClassOrder[i])

\* the declared class whose namespace a class (or its glue class) carries
Declared(cls) ==
    IF IsGlue(cls) THEN ClassOrder[CHOOSE i \in DOMAIN ClassOrder : cls = glue_name(ClassOrder[i])]
    ELSE cls

RECURSIVE lookup(_, _), lookup_bases(_, _)
\* attribute lookup along the class hierarchy: <<>> or <<value>>
lookup(cls, attr) ==
    IF Declared(cls) = "JSONModel" THEN <<>>
    ELSE IF Has(Decl(Declared(cls)).namespace, attr)
    THEN <<Get(Decl(Declared(cls)).namespace, attr)>>
    ELSE lookup_bases(Decl(Declared(cls)).bases, attr)

lookup_bases(bases, attr) ==
    IF bases = <<>> THEN <<>>
    ELSE IF lookup(Head(bases), attr) # <<>> THEN lookup(Head(bases), attr)
    ELSE lookup_bases(Tail(bases), attr)

RECURSIVE issubclass(_, _)
issubclass(cls, base) ==
    \/ cls = base
    \/ /\ Declared(cls) # "JSONModel"
       /\ \/ (~IsGlue(cls) /\ glue_name(cls) = base)
          \/ \E i \in DOMAIN Decl(Declared(cls)).bases :
                issubclass(Decl(Declared(cls)).bases[i], base)

\* ------------------------------------------------------------------------
\* JSONModel (JSONModel.py)
\* ------------------------------------------------------------------------
\* every class object of the program: JSONModel, the declared classes and
\* their glue classes
AllClasses ==
    {"JSONModel"} \cup {ClassOrder[i] : i \in DOMAIN ClassOrder}
                  \cup {glue_name(ClassOrder[i]) : i \in DOMAIN ClassOrder}

\* the attributes of each class object, as its class statement leaves them:
\* __json_model__, _name_field(), model_identity(), __name_field_required__
\* and the classes it is a subclass of
ClassAttrs ==
    [cls \in AllClasses |->
        [json_model |-> JSONModelMeta(Declared(cls)).json_model,
         name_field |-> IF lookup(cls, "_name_field") # <<>>
                        THEN lookup(cls, "_name_field")[1].v ELSE "__name",
         model_identity |-> IF lookup(cls, "model_identity") # <<>>
                            THEN lookup(cls, "model_identity")[1] ELSE PyStr(cls),
         name_field_required |-> IF lookup(cls, "__name_field_required__") # <<>>
                                 THEN lookup(cls, "__name_field_required__")[1].v ELSE TRUE,
         ancestors |-> {base \in AllClasses : issubclass(cls, base)}]]

\* cls.__json_model__ and JSONModel.get_model (cls.__exclusions__ is empty)
json_model(cls) == ClassAttrs[cls].json_model

exclusions(cls) == {}

get_model(cls) == SelectSeq(json_model(cls), LAMBDA p : p.k \notin exclusions(cls))

\* JSONModel._name_field: "__name" unless a class in the hierarchy overrides it
_name_field(cls) == ClassAttrs[cls].name_field

\* JSONModel.model_identity: cls.__name__ unless a class in the hierarchy overrides it
model_identity(cls) == ClassAttrs[cls].model_identity

\* cls.__name_field_required__ (True on the metaclass)
name_field_required(cls) == ClassAttrs[cls].name_field_required

\* bool(k) of a key
truthy(k) == k # ""

RECURSIVE _validate_model(_, _, _, _, _)

\* the rest of one turn of the loop of _validate_model, from the outcome r of
\* m.validate(val): a ModelElemError becomes a JSONModelError naming the key,
\* a value goes into the result and the loop goes on
validated_item(cls, model, values, ignore_extra, result, r) ==
    IF ~r.ok
    THEN IF IsModelElemError(r.err)
         THEN Raise(JSONModelError("Model error on key", cls, Head(model).k))
         ELSE r
    ELSE _validate_model(cls, Tail(model), Pop(values, Head(model).k), ignore_extra,
                         Append(result, Field(Head(model).k, r.val)))

\* JSONModel._validate_model: the loop over model.items() with the result so
\* far, then the check of the keys that are left over
_validate_model(cls, model, values, ignore_extra, result) ==
    IF model = <<>>
    THEN IF ~ignore_extra /\ \E k \in Keys(values) : truthy(k) /\ k \notin exclusions(cls)
         THEN Raise(JSONModelError("The following keys are not found in the model", cls, ""))
         ELSE Return(result)
    ELSE LET k == Head(model).k
             m == Head(model).v
         IN  IF ~Has(values, k) /\ ~has_default(m)
             THEN Raise(JSONModelError("Missing required key", cls, k))
             ELSE validated_item(cls, model, values, ignore_extra, result,
                                 validate(m, IF Has(values, k) THEN Get(values, k) ELSE default(m)))

\* JSONModel.validate_model
validate_model(cls, model, values, ignore_extra) ==
    _validate_model(cls, model, values, ignore_extra, <<>>)

\* an instance of cls with the attributes attrs
Instance(cls, attrs) == [t |-> "object", cls |-> cls, v |-> attrs]

\* for k, v in validated.items(): setattr(self, k, v)
setattrs(cls, validated) ==
    IF validated.ok THEN Return(Instance(cls, validated.val)) ELSE validated

\* cls(**kwargs): JSONModel.__init__ validates with ignore_extra=False and
\* sets one attribute per validated item
__init__(cls, kwargs) == setattrs(cls, validate_model(cls, get_model(cls), kwargs, FALSE))

\* the setattr loop running over kwargs ahead of validate_model
attributes_set_before_validation(kwargs, validated) ==
    IF validated.ok THEN validated.val ELSE kwargs

\* the attributes of self when JSONModel.__init__ ends: the setattr loop runs
\* over validated.items() once validate_model has returned, and not at all
\* when it raised
attributes_set(kwargs, validated) ==
    IF validated.ok THEN validated.val ELSE <<>>

\* the attributes of the new object when cls(**kwargs) ends
init_assigned(cls, kwargs) ==
    attributes_set(kwargs, validate_model(cls, get_model(cls), kwargs, FALSE))

\* JSONModel.to_json
to_json(self) == <<>>

\* the item k: v of a dict comprehension, from the outcome r of its value
Item(k, r) == IF r.ok THEN Return(Field(k, r.val)) ELSE r

RECURSIVE parse_json_from(_, _)
\* {k: elem.parse_value(o[k]) for k, elem in model if k in o}
parse_json_from(model, o) ==
    IF model = <<>> THEN Return(<<>>)
    ELSE IF ~Has(o, Head(model).k) THEN parse_json_from(Tail(model), o)
    ELSE Cons(Item(Head(model).k, parse_value(Head(model).v, Get(o, Head(model).k))),
              parse_json_from(Tail(model), o))

\* JSONModel.parse_json
parse_json(cls, o) == parse_json_from(json_model(cls), o)

\* _pop_name_from_name_field taking the name field for required in every class
_pop_name_always_required(cls, o) ==
    IF ~Has(o, _name_field(cls))
    THEN Raise(JSONModelError("Object is missing name field", cls, _name_field(cls)))
    ELSE Return(Get(o, _name_field(cls)))

\* JSONModel._pop_name_from_name_field: the discriminator popped from o
_pop_name_from_name_field(cls, o) ==
    IF ~Has(o, _name_field(cls))
    THEN IF name_field_required(cls)
         THEN Raise(JSONModelError("Object is missing name field", cls, _name_field(cls)))
         ELSE Return(model_identity(cls))
    ELSE Return(Get(o, _name_field(cls)))

\* _subclass_match comparing with the class name instead of model_identity()
_subclass_match_by_class_name(cls, value, subclass) == PyEq(value, PyStr(subclass))

\* JSONModel._subclass_match
_subclass_match(cls, value, subclass) == PyEq(value, model_identity(subclass))

RECURSIVE subclasses_from(_, _, _)
subclasses_from(cls, defined, i) ==
    IF i > defined THEN <<>>
    ELSE (IF ClassOrder[i] # cls /\ cls \in ClassAttrs[ClassOrder[i]].ancestors
          THEN <<glue_name(ClassOrder[i]), ClassOrder[i]>> ELSE <<>>)
         \o subclasses_from(cls, defined, i + 1)

\* ClassHelpers.all_subclasses(cls): the classes defined so far that derive
\* from cls, glue classes included, in definition order
all_subclasses(cls, defined) == subclasses_from(cls, defined, 1)

\* the Glue test answering False for every class
has_Glue_base_never(subclass) == FALSE

\* Glue in subclass.__bases__
has_Glue_base(subclass) == IsGlue(subclass)

\* isinstance(name, Hashable)
Hashable(name) == name.t \notin {"list", "dict"}

RECURSIVE first_match(_, _, _)
\* the loop of _extract_subclass_by_name over chain: <<>> or the first class
\* that has no Glue base and matches
first_match(cls, name, chain) ==
    IF chain = <<>> THEN <<>>
    ELSE IF ~has_Glue_base(Head(chain)) /\ _subclass_match(cls, name, Head(chain))
    THEN <<Head(chain)>>
    ELSE first_match(cls, name, Tail(chain))

\* return_match with the match cached under (name, subclass) instead of
\* (name, cls)
return_match_keyed_by_match(cls, name, cache, found) ==
    IF found = <<>>
    THEN [ret |-> Raise(JSONModelError("Unable to find suitable subclass", cls,
                                       IF name.t = "str" THEN name.v ELSE "")),
          cache |-> cache]
    ELSE [ret |-> Return(found[1]),
          cache |-> IF Hashable(name)
                    THEN [key \in DOMAIN cache \cup {<<name, found[1]>>} |->
                             IF key = <<name, found[1]>> THEN found[1] ELSE cache[key]]
                    ELSE cache]

\* return_match with the cache started afresh at every insert
return_match_single_entry(cls, name, cache, found) ==
    IF found = <<>>
    THEN [ret |-> Raise(JSONModelError("Unable to find suitable subclass", cls,
                                       IF name.t = "str" THEN name.v ELSE "")),
          cache |-> cache]
    ELSE [ret |-> Return(found[1]),
          cache |-> IF Hashable(name) THEN [key \in {<<name, cls>>} |-> found[1]] ELSE cache]

\* the end of _extract_subclass_by_name: the match is cached under a hashable
\* name and returned, no match raises
return_match(cls, name, cache, found) ==
    IF found = <<>>
    THEN [ret |-> Raise(JSONModelError("Unable to find suitable subclass", cls,
                                       IF name.t = "str" THEN name.v ELSE "")),
          cache |-> cache]
    ELSE [ret |-> Return(found[1]),
          cache |-> IF Hashable(name)
                    THEN [key \in DOMAIN cache \cup {<<name, cls>>} |->
                             IF key = <<name, cls>> THEN found[1] ELSE cache[key]]
                    ELSE cache]

\* _extract_subclass_by_name with the cache looked up by name alone, whatever
\* the class the entry was made for
_extract_subclass_by_name_any_base(cls, name, cache, defined) ==
    IF Hashable(name) /\ \E key \in DOMAIN cache : key[1] = name
    THEN [ret |-> Return(cache[CHOOSE key \in DOMAIN cache : key[1] = name]), cache |-> cache]
    ELSE return_match(cls, name, cache,
                      first_match(cls, name, <<cls>> \o all_subclasses(cls, defined)))

\* JSONModel._extract_subclass_by_name: the outcome and the cache afterwards
_extract_subclass_by_name(cls, name, cache, defined) ==
    IF Hashable(name) /\ <<name, cls>> \in DOMAIN cache
    THEN [ret |-> Return(cache[<<name, cls>>]), cache |-> cache]
    ELSE return_match(cls, name, cache,
                      first_match(cls, name, <<cls>> \o all_subclasses(cls, defined)))

\* cls._extract_subclass_by_name(name) for the outcome name of the pop
extract_named(cls, name, cache, defined) ==
    IF ~name.ok THEN [ret |-> name, cache |-> cache]
    ELSE _extract_subclass_by_name(cls, name.val, cache, defined)

\* JSONModel._extract_subclass
_extract_subclass(cls, o, cache, defined) ==
    extract_named(cls, _pop_name_from_name_field(cls, o), cache, defined)

\* subclass(**parsed) for the outcome parsed of subclass.parse_json(o)
construct_parsed(subclass, parsed) ==
    IF parsed.ok THEN __init__(subclass, parsed.val) ELSE parsed

\* subclass(**subclass.parse_json(o)) for the outcome of cls._extract_subclass(copy)
construct_subclass(subclass, o) ==
    IF ~subclass.ret.ok THEN subclass
    ELSE [ret |-> construct_parsed(subclass.ret.val, parse_json(subclass.ret.val, o)),
          cache |-> subclass.cache]

\* JSONModel._from_json_meta: subclass(**subclass.parse_json(o)), the subclass
\* extracted from a copy of o; the keyword arguments of from_json are not used
_from_json_meta(cls, o, kwargs, cache, defined) ==
    construct_subclass(_extract_subclass(cls, o, cache, defined), o)

\* JSONModel.from_json
from_json(cls, o, kwargs, cache, defined) == _from_json_meta(cls, o, kwargs, cache, defined)

\* the attributes of the object that subclass(**parsed) was constructing; no
\* object is made when parse_json raised
assigned_parsed(subclass, parsed) ==
    IF parsed.ok THEN init_assigned(subclass, parsed.val) ELSE <<>>

\* the same for the outcome of cls._extract_subclass(copy); no object is made
\* when it raised
assigned_subclass(subclass, o) ==
    IF ~subclass.ret.ok THEN <<>>
    ELSE assigned_parsed(subclass.ret.val, parse_json(subclass.ret.val, o))

\* the attributes of the object that cls.from_json(o) was constructing when
\* it ends
from_json_assigned(cls, o, cache, defined) ==
    assigned_subclass(_extract_subclass(cls, o, cache, defined), o)

\* _from_json_meta with copy bound to o itself
_from_json_meta_mappings_aliased(cls, o) ==
    [o |-> Pop(o, _name_field(cls)), copy |-> Pop(o, _name_field(cls))]

\* the two mappings of _from_json_meta when it ends: o, which the caller
\* passed and parse_json reads, and copy, the new mapping with the items of o
\* that _pop_name_from_name_field pops the name field from
_from_json_meta_mappings(cls, o) ==
    [o |-> o, copy |-> Pop(o, _name_field(cls))]

\* ------------------------------------------------------------------------
\* The inputs of the model
\* ------------------------------------------------------------------------
Choice(k, vals) == [k |-> k, vals |-> vals]

\* the objects rest, and each of them with the key of choice c put in front
WithChoice(c, rest) == rest \cup {<<Field(c.k, val)>> \o r : val \in c.vals, r \in rest}

RECURSIVE Objects(_)
\* the objects that have, for each choice in turn, no such key or the key
\* with one of its values
Objects(choices) ==
    IF choices = <<>> THEN {<<>>}
    ELSE WithChoice(Head(choices), Objects(Tail(choices)))

\* the list [0, 1, ..., n - 1]
IntList(n) == PyList([i \in 1..n |-> PyInt(i - 1)])

SimpleObjects ==
    Objects(<<Choice("__name", {PyStr("SimpleModel")}),
              Choice("string_field", {PyStr("a"), PyInt(1)}),
              Choice("int_field", {PyInt(1)}),
              Choice("bool_field", {PyBool(FALSE), PyBool(TRUE)}),
              Choice("extra_field", {PyStr("oops")})>>)

BaseObjects ==
    Objects(<<Choice("__name", {PyStr("BaseModel"), PyStr("SubA"), PyStr("SubB"), PyStr("Unknown")}),
              Choice("base_field", {PyStr("a")}),
              Choice("shared_field", {PyInt(5)}),
              Choice("sub_a_field", {PyStr("a")}),
              Choice("sub_b_field", {PyFloat(1)})>>)

\* objects that carry the discriminator under the key "__type" that BaseModel
\* names in __name_field__
TypeKeyObjects ==
    {<<Field("__type", PyStr("SubA"))>> \o o :
        o \in Objects(<<Choice("base_field", {PyStr("a")}), Choice("sub_a_field", {PyStr("a")})>>)}

GenericObjects ==
    Objects(<<Choice("__name", {PyStr("ModelWithGenericTypes")}),
              Choice("tuple_int", {IntList(n) : n \in 0..MaxLen}),
              Choice("tuple_fixed", {PyList(<<PyStr("x"), PyInt(1), PyBool(TRUE)>>),
                                     PyList(<<PyStr("x"), PyInt(1)>>)})>>)

DefaultsObjects ==
    Objects(<<Choice("__name", {PyStr("ModelWithDefaults")}),
              Choice("default_string", {PyStr("a")}),
              Choice("list_with_default", {PyList(<<PyInt(1)>>)})>>)

DeepObjects ==
    Objects(<<Choice("__name", {PyStr("DeepA")}),
              Choice("base_field", {PyStr("a")}),
              Choice("shared_field", {PyInt(5)}),
              Choice("sub_a_field", {PyStr("a")})>>)

IgnoredObjects ==
    Objects(<<Choice("__name", {PyStr("ModelWithIgnoredField")}),
              Choice("regular_field", {PyStr("a")}),
              Choice("ignored_field", {PyInt(7), PyStr("x")})>>)

EmptyDefaultsObjects ==
    Objects(<<Choice("plain", {PyInt(1)}),
              Choice("empty_list", {PyList(<<>>)}),
              Choice("empty_tuple", {PyTuple(<<>>)})>>)

\* the JSON objects handed to cls.from_json
EnumsObjects ==
    Objects(<<Choice("color", {PyStr("RED"), PyStr("PURPLE")}),
              Choice("status", {PyInt(1)}),
              Choice("permissions", {PyInt(3)}),
              Choice("extra_field", {PyStr("oops")})>>)

ObjectsFor ==
    [cls \in {ClassOrder[i] : i \in DOMAIN ClassOrder} |->
        IF cls = "SimpleModel" THEN SimpleObjects
        ELSE IF cls = "ModelWithDefaults" THEN DefaultsObjects
        ELSE IF cls = "DeepModelA" THEN DeepObjects
        ELSE IF cls = "ModelWithIgnoredField" THEN IgnoredObjects
        ELSE IF cls = "ModelWithEmptyDefaults" THEN EmptyDefaultsObjects
        ELSE IF cls = "ModelWithEnums" THEN EnumsObjects
        ELSE IF cls = "ModelWithGenericTypes" THEN GenericObjects
        ELSE IF cls = "BaseModel" THEN BaseObjects \cup TypeKeyObjects
        ELSE BaseObjects]

\* the keyword arguments handed to cls(...)
KwargsFor ==
    [cls \in {ClassOrder[i] : i \in DOMAIN ClassOrder} |->
        {o \in ObjectsFor[cls] : ~Has(o, "__name")}]

\* from_json is given ignore_extra=True only along with an extra key
IgnoreExtraFor(o) == IF Has(o, "extra_field") THEN BOOLEAN ELSE {FALSE}

\* the discriminator values handed to a direct resolution
Names == {PyStr("SimpleModel"), PyStr("BaseModel"), PyStr("SubA"), PyStr("SubB"),
          PyStr("SubModelA"), PyStr("_SubModelA_Glue"), PyStr("Unknown")}

\* ------------------------------------------------------------------------
\* State
\* ------------------------------------------------------------------------
VARIABLES
    defined,        \* how many class statements of ClassOrder have run
    ncalls,         \* how many calls the program has made
    _MODEL_CACHE,   \* JSONModel._MODEL_CACHE: (name, cls) -> subclass
    call,           \* the call the program made last, "idle" between calls
    ret,            \* its outcome
    inst,           \* the instance the caller holds, and the input it was built from
    json,           \* the output of to_json on that instance
    elem,           \* descriptor under test
    raw,            \* the value handed to it
    pc,             \* the descriptor calls made so far
    parsed,         \* outcome of parse_value
    checked,        \* outcome of validate
    dumped,         \* outcome of dump_value
    heap,           \* the list objects of the program, in the order they were made
    holders,        \* the instances of ModelWithDefaults that the caller holds
    threads,        \* the threads inside _extract_subclass_by_name
    assigned,       \* the attributes set on the object that the last call was constructing
    arg             \* the mapping the caller passed to the last call, as the call left it

vars == <<defined, ncalls, _MODEL_CACHE, call, ret, inst, json, elem, raw, pc, parsed, checked, dumped,
          heap, holders, threads, assigned, arg>>

recordVars == <<defined, ncalls, _MODEL_CACHE, call, ret, inst, json>>

elemVars == <<elem, raw, pc, parsed, checked, dumped>>

heapVars == <<heap, holders>>

threadVars == <<threads>>

callVars == <<assigned, arg>>

NoError == [exc |-> "", msg |-> "", on |-> "", key |-> "", n |-> 0]

Idle == [op |-> "idle", cls |-> "", o |-> <<>>, ignore_extra |-> FALSE, of_dump |-> FALSE]

NoInst == [obj |-> PyNone, o |-> <<>>, direct |-> FALSE]

NoJson == [set |-> FALSE, o |-> <<>>]

DefinedClasses == {ClassOrder[i] : i \in 1..defined}

\* no call has been made yet
NoCall ==
    /\ assigned = <<>>
    /\ arg = <<>>

RecordInit ==
    /\ defined = 0
    /\ ncalls = 0
    /\ _MODEL_CACHE = <<>>
    /\ call = Idle
    /\ ret = Raise(NoError)
    /\ inst = NoInst
    /\ json = NoJson

ElemIdle ==
    /\ elem = _BaseModelElem(Plain("NoneType"))
    /\ raw = PyNone
    /\ pc = "idle"
    /\ parsed = Raise(NoError)
    /\ checked = Raise(NoError)
    /\ dumped = Raise(NoError)

\* no object has been made yet
HeapIdle ==
    /\ heap = <<>>
    /\ holders = <<>>

\* no thread has been started
NoThreads == threads = <<>>

Init == RecordInit /\ ElemIdle /\ HeapIdle /\ NoThreads /\ NoCall

\* the next class statement of the program runs (JSONModelMeta.__new__)
DefineClass ==
    /\ call.op = "idle"
    /\ defined < Len(ClassOrder)
    /\ defined' = defined + 1
    /\ UNCHANGED <<ncalls, _MODEL_CACHE, call, ret, inst, json>>
    /\ UNCHANGED elemVars
    /\ UNCHANGED <<heapVars, threadVars>>
    /\ UNCHANGED callVars

\* cls(**kwargs)
Construct(cls, kwargs) ==
    /\ call.op = "idle"
    /\ ncalls < MaxCalls
    /\ ncalls' = ncalls + 1
    /\ LET Returns(r) ==
               /\ ret' = r
               /\ inst' = IF r.ok THEN [obj |-> r.val, o |-> kwargs, direct |-> TRUE] ELSE NoInst
       IN  Returns(__init__(cls, kwargs))
    /\ call' = [op |-> "construct", cls |-> cls, o |-> kwargs, ignore_extra |-> FALSE, of_dump |-> FALSE]
    /\ json' = NoJson
    /\ UNCHANGED <<defined, _MODEL_CACHE>>
    /\ UNCHANGED elemVars
    /\ UNCHANGED <<heapVars, threadVars>>
    /\ assigned' = init_assigned(cls, kwargs)
    \* ** hands __init__ a mapping of its own, and _validate_model pops from
    \* its copy {**values}
    /\ arg' = kwargs

\* cls.from_json(o) or cls.from_json(o, ignore_extra=True)
FromJson(cls, o, ignore_extra) ==
    /\ call.op = "idle"
    /\ ncalls < MaxCalls
    /\ ncalls' = ncalls + 1
    /\ LET Returns(r) ==
               /\ ret' = r.ret
               /\ _MODEL_CACHE' = r.cache
               /\ inst' = IF r.ret.ok THEN [obj |-> r.ret.val, o |-> o, direct |-> FALSE] ELSE NoInst
       IN  Returns(from_json(cls, o, ignore_extra, _MODEL_CACHE, defined))
    /\ call' = [op |-> "from_json", cls |-> cls, o |-> o, ignore_extra |-> ignore_extra, of_dump |-> FALSE]
    /\ json' = NoJson
    /\ UNCHANGED defined
    /\ UNCHANGED elemVars
    /\ UNCHANGED <<heapVars, threadVars>>
    /\ assigned' = from_json_assigned(cls, o, _MODEL_CACHE, defined)
    /\ arg' = _from_json_meta_mappings(cls, o).o

\* cls._extract_subclass_by_name(name)
Resolve(cls, name) ==
    /\ call.op = "idle"
    /\ ncalls < MaxCalls
    /\ ncalls' = ncalls + 1
    /\ LET Returns(r) ==
               /\ ret' = IF r.ret.ok THEN Return([t |-> "type", v |-> r.ret.val]) ELSE r.ret
               /\ _MODEL_CACHE' = r.cache
       IN  Returns(_extract_subclass_by_name(cls, name, _MODEL_CACHE, defined))
    /\ call' = [op |-> "resolve", cls |-> cls, o |-> <<Field("__name", name)>>,
                ignore_extra |-> FALSE, of_dump |-> FALSE]
    /\ UNCHANGED <<defined, inst, json>>
    /\ UNCHANGED elemVars
    /\ UNCHANGED <<heapVars, threadVars>>
    /\ UNCHANGED callVars

\* instance.to_json() on the instance the last call returned
ToJson ==
    /\ call.op \in {"construct", "from_json"}
    /\ ret.ok
    /\ ~call.of_dump
    /\ json' = [set |-> TRUE, o |-> to_json(inst.obj)]
    /\ call' = [op |-> "to_json", cls |-> inst.obj.cls, o |-> <<>>,
                ignore_extra |-> FALSE, of_dump |-> FALSE]
    /\ UNCHANGED <<defined, ncalls, _MODEL_CACHE, ret, inst>>
    /\ UNCHANGED elemVars
    /\ UNCHANGED <<heapVars, threadVars>>
    /\ UNCHANGED callVars

\* type(instance).from_json(instance.to_json())
FromJsonOfDump ==
    /\ call.op = "to_json"
    /\ LET Returns(r) ==
               /\ ret' = r.ret
               /\ _MODEL_CACHE' = r.cache
       IN  Returns(from_json(inst.obj.cls, json.o, FALSE, _MODEL_CACHE, defined))
    /\ call' = [op |-> "from_json", cls |-> inst.obj.cls, o |-> json.o,
                ignore_extra |-> FALSE, of_dump |-> TRUE]
    /\ UNCHANGED <<defined, ncalls, inst, json>>
    /\ UNCHANGED elemVars
    /\ UNCHANGED <<heapVars, threadVars>>
    /\ assigned' = from_json_assigned(inst.obj.cls, json.o, _MODEL_CACHE, defined)
    /\ arg' = _from_json_meta_mappings(inst.obj.cls, json.o).o

\* the caller drops the outcome and goes on
Forget ==
    /\ call.op # "idle"
    /\ call' = Idle
    /\ ret' = Raise(NoError)
    /\ inst' = NoInst
    /\ json' = NoJson
    /\ UNCHANGED <<defined, ncalls, _MODEL_CACHE>>
    /\ UNCHANGED elemVars
    /\ UNCHANGED <<heapVars, threadVars>>
    /\ assigned' = <<>>
    /\ arg' = <<>>

Next ==
    \/ DefineClass
    \/ \E cls \in DefinedClasses : \E kwargs \in KwargsFor[cls] : Construct(cls, kwargs)
    \/ \E cls \in DefinedClasses : \E o \in ObjectsFor[cls] : \E ignore_extra \in IgnoreExtraFor(o) :
          FromJson(cls, o, ignore_extra)
    \/ \E cls \in DefinedClasses : \E name \in Names : Resolve(cls, name)
    \/ ToJson
    \/ FromJsonOfDump
    \/ Forget

Spec == Init /\ [][Next]_vars

\* ------------------------------------------------------------------------
\* Descriptors on their own: parse_value, validate and dump_value applied to
\* one descriptor and one raw value
\* ------------------------------------------------------------------------
NoAlternates == <<>>

\* ModelElem(int, alternates=[AlternateModelElem(str, int)])
int_from_string ==
    ModelElem(Plain("int"), NoDefault, "", <<AlternateModelElem(Plain("str"), "int", "")>>, FALSE)

\* ModelElem(str, alternates=[AlternateModelElem(int, str, jsonifier=str)])
string_from_int ==
    ModelElem(Plain("str"), NoDefault, "", <<AlternateModelElem(Plain("int"), "str", "str")>>, FALSE)

\* ModelElem(bool, alternates=[AlternateModelElem(str, lambda s: s.lower() == "true")])
bool_from_string ==
    ModelElem(Plain("bool"), NoDefault, "",
              <<AlternateModelElem(Plain("str"), "lower_is_true", "")>>, FALSE)

\* two alternates that take the same source type, and two that take different ones
int_or_truth ==
    ModelElem(Plain("float"), NoDefault, "",
              <<AlternateModelElem(Plain("str"), "int", ""),
                AlternateModelElem(Plain("str"), "lower_is_true", "")>>, FALSE)

none_or_string ==
    ModelElem(Plain("int"), NoDefault, "",
              <<AlternateModelElem(Plain("NoneType"), "str", ""),
                AlternateModelElem(Plain("str"), "int", ""),
                AlternateModelElem(Plain("str"), "str", "")>>, FALSE)

\* ModelElem(int, ignored=True)
ignored_field == ModelElem(Plain("int"), NoDefault, "", NoAlternates, TRUE)

RECURSIVE HintSeqs(_, _)
\* the sequences of exactly n hints drawn from origins
HintSeqs(origins, n) ==
    IF n = 0 THEN {<<>>}
    ELSE {<<Plain(o)>> \o rest : o \in origins, rest \in HintSeqs(origins, n - 1)}

\* tuple[c1, ..., cn] for n up to MaxLen, and tuple[str, int, bool]
FixedTuples ==
    {ModelElem(Hint("tuple", args), NoDefault, "", NoAlternates, FALSE) :
        args \in UNION {HintSeqs({"str", "int"}, n) : n \in 0..MaxLen}}
    \cup {ModelElem(Hint("tuple", <<Plain("str"), Plain("int"), Plain("bool")>>),
                    NoDefault, "", NoAlternates, FALSE)}

Elems ==
    {ModelElem(Plain(o), NoDefault, "", NoAlternates, FALSE) :
        o \in {"int", "str", "bool", "float", "Permissions", "timedelta", "Color", "Status"}}
    \cup {int_from_string, string_from_int, bool_from_string, int_or_truth, none_or_string,
          ignored_field}
    \cup FixedTuples
    \cup {ModelElem(Hint("tuple", <<Plain("int"), Plain("Ellipsis")>>), NoDefault, "", NoAlternates, FALSE),
          ModelElem(Hint("list", <<Plain("int")>>), NoDefault, "", NoAlternates, FALSE),
          ModelElem(Hint("Optional", <<Plain("int")>>), NoDefault, "", NoAlternates, FALSE),
          ModelElem(Hint("Union", <<Plain("int"), Plain("str")>>), NoDefault, "", NoAlternates, FALSE),
          ModelElem(Hint("Union", <<Plain("float"), Plain("int")>>), NoDefault, "", NoAlternates, FALSE),
          ModelElem(Hint("Union", <<Plain("Color"), Plain("str")>>), NoDefault, "", NoAlternates, FALSE),
          ModelElem(Plain("bytes"), NoDefault, "", NoAlternates, FALSE)}

RECURSIVE ValueSeqs(_, _)
\* the sequences of at most n values drawn from vals
ValueSeqs(vals, n) ==
    IF n = 0 THEN {<<>>}
    ELSE ValueSeqs(vals, n - 1)
         \cup {<<val>> \o rest : val \in vals, rest \in {r \in ValueSeqs(vals, n - 1) : Len(r) = n - 1}}

\* durations in milliseconds: under and over one day, whole seconds and not
\* (93784000 is 1 day 2 h 3 min 4 s)
DurationMillis == {1000, 1500, 86399000, 86400000, 93784000}

Raws ==
    {PyNone, PyBool(TRUE), PyBool(FALSE), PyFloat(1)}
    \cup {PyInt(n) : n \in 0..(MaxInt - 1)}
    \cup {PyInt(n) : n \in DurationMillis}
    \cup {PyStr(s) : s \in {"1", "a", "ab", "abc", "True", "seconds=5",
                             "days=1,hours=2,minutes=3,seconds=4.5",
                             "RED", "red", "PURPLE", "ACTIVE", "PENDING"}}
    \cup {PyList(xs) : xs \in ValueSeqs({PyStr("x"), PyInt(1), PyBool(TRUE)}, MaxLen)}
    \cup {PyTuple(xs) : xs \in ValueSeqs({PyStr("x"), PyInt(1)}, MaxLen)}

\* the values handed to the bytes descriptor on top of Raws: bytes objects,
\* base64 texts in both alphabets, lists of hexadecimal strings and a list
\* with a value that is no byte
BytesRaws ==
    {PyBytes(xs) : xs \in ValueSeqs({97, 98, 251, 255}, MaxLen)}
    \cup {PyStr(s) : s \in {"YQ==", "YWI=", "-_8=", "+/8=", "abcd-"}}
    \cup {PyList(<<PyStr("ff"), PyStr("0a")>>), PyList(<<PyInt(1), PyInt(256)>>)}

InitElem ==
    /\ RecordInit
    /\ HeapIdle
    /\ NoThreads
    /\ NoCall
    /\ elem \in Elems
    /\ raw \in Raws \cup (IF elem.origin = "bytes" THEN BytesRaws ELSE {})
    /\ pc = "start"
    /\ parsed = Raise(NoError)
    /\ checked = Raise(NoError)
    /\ dumped = Raise(NoError)

\* elem.parse_value(raw)
ParseValue ==
    /\ pc = "start"
    /\ parsed' = parse_value(elem, raw)
    /\ pc' = "parsed"
    /\ UNCHANGED <<elem, raw, checked, dumped>>
    /\ UNCHANGED recordVars
    /\ UNCHANGED <<heapVars, threadVars>>
    /\ UNCHANGED callVars

\* elem.validate(v) on the value that parse_value returned
Validate ==
    /\ pc = "parsed"
    /\ parsed.ok
    /\ checked' = validate(elem, parsed.val)
    /\ pc' = "validated"
    /\ UNCHANGED <<elem, raw, parsed, dumped>>
    /\ UNCHANGED recordVars
    /\ UNCHANGED <<heapVars, threadVars>>
    /\ UNCHANGED callVars

\* elem.dump_value(v) on the value that parse_value returned
DumpValue ==
    /\ pc = "parsed"
    /\ parsed.ok
    /\ dumped' = dump_value(elem, parsed.val)
    /\ pc' = "dumped"
    /\ UNCHANGED <<elem, raw, parsed, checked>>
    /\ UNCHANGED recordVars
    /\ UNCHANGED <<heapVars, threadVars>>
    /\ UNCHANGED callVars

NextElem == ParseValue \/ Validate \/ DumpValue

SpecElem == InitElem /\ [][NextElem]_vars

\* ------------------------------------------------------------------------
\* Mutable defaults: the list objects behind the field list_with_default of
\* ModelWithDefaults, each with the place that made it and its elements
\* ------------------------------------------------------------------------
\* a new list object with the elements xs: its reference and the heap with it
new(h, site, xs) == [ref |-> Len(h) + 1, heap |-> Append(h, [by |-> site, v |-> xs])]

\* ModelElem.default calling the factory at the first access only and handing
\* out the object held from then on
default_object_held(self, held, h) ==
    IF held = 0 THEN new(h, "default_factory", default(self).v) ELSE [ref |-> held, heap |-> h]

\* ModelElem.default as an object: the factory is called at every access, a
\* fixed default is the one object held (held is 0 while none is held)
default_object(self, held, h) ==
    IF self.default_factory # "" THEN new(h, "default_factory", default(self).v)
    ELSE [ref |-> held, heap |-> h]

\* m.validate(val) on the list object d.ref for a list descriptor: the
\* comprehension of _parse_value makes a new list of the parsed elements
validate_object(self, d) ==
    new(d.heap, "_parse_value", validate(self, PyList(d.heap[d.ref].v)).val.v)

\* the descriptor of ModelWithDefaults.list_with_default
list_with_default == Get(json_model("ModelWithDefaults"), "list_with_default")

\* JSONModelMeta.__new__ of ModelWithDefaults reads elem.default once, into
\* __defaults__
class_statement == default_object(list_with_default, 0, <<>>)

\* ModelWithDefaults.__defaults__["list_with_default"]
defaults_object == class_statement.ref

\* the lists a caller supplies for the field
SuppliedLists == {<<PyInt(1)>>}

\* the program after its class statements
InitDefaults ==
    /\ defined = Len(ClassOrder)
    /\ ncalls = 0
    /\ _MODEL_CACHE = <<>>
    /\ call = Idle
    /\ ret = Raise(NoError)
    /\ inst = NoInst
    /\ json = NoJson
    /\ ElemIdle
    /\ heap = class_statement.heap
    /\ holders = <<>>
    /\ NoThreads
    /\ NoCall

\* ModelWithDefaults() for supplied = <<>> and
\* ModelWithDefaults(list_with_default=supplied[1]) otherwise: _validate_model
\* takes m.default or the value supplied, validates it and the instance gets
\* the outcome; made is the object that went into m.validate, own the
\* elements appended through the instance since
Instantiate(supplied) ==
    /\ Len(holders) < MaxInstances
    /\ LET Built(val) ==
               /\ heap' = validate_object(list_with_default, val).heap
               /\ holders' = Append(holders, [ref |-> validate_object(list_with_default, val).ref,
                                              omitted |-> supplied = <<>>,
                                              made |-> val.ref,
                                              supplied |-> supplied,
                                              own |-> <<>>])
       IN  IF supplied = <<>>
           THEN Built(default_object(list_with_default, defaults_object, heap))
           ELSE /\ validate(list_with_default, PyList(supplied[1])).ok
                /\ Built(new(heap, "caller", supplied[1]))
    /\ UNCHANGED recordVars
    /\ UNCHANGED elemVars
    /\ UNCHANGED threadVars
    /\ UNCHANGED callVars

\* holders[i].list_with_default.append(x)
AppendTo(i, x) ==
    /\ Len(heap[holders[i].ref].v) < MaxLen
    /\ heap' = [heap EXCEPT ![holders[i].ref].v = Append(@, x)]
    /\ holders' = [holders EXCEPT ![i].own = Append(@, x)]
    /\ UNCHANGED recordVars
    /\ UNCHANGED elemVars
    /\ UNCHANGED threadVars
    /\ UNCHANGED callVars

\* ModelWithDefaults.__defaults__["list_with_default"].append(x)
AppendToDefaults(x) ==
    /\ Len(heap[defaults_object].v) < MaxLen
    /\ heap' = [heap EXCEPT ![defaults_object].v = Append(@, x)]
    /\ UNCHANGED holders
    /\ UNCHANGED recordVars
    /\ UNCHANGED elemVars
    /\ UNCHANGED threadVars
    /\ UNCHANGED callVars

NextDefaults ==
    \/ \E supplied \in {<<>>} \cup {<<xs>> : xs \in SuppliedLists} : Instantiate(supplied)
    \/ \E i \in DOMAIN holders : AppendTo(i, PyInt(2))
    \/ AppendToDefaults(PyInt(3))

SpecDefaults == InitDefaults /\ [][NextDefaults]_vars

\* ------------------------------------------------------------------------
\* Concurrent resolution: cls._extract_subclass_by_name(name) on several
\* threads, with no lock around JSONModel._MODEL_CACHE
\* ------------------------------------------------------------------------
\* a thread that has entered cls._extract_subclass_by_name(name): pc is the
\* step it takes next, subclass the loop variable once the loop has matched
Entered(cls, name) ==
    [cls |-> cls, name |-> name, pc |-> "lookup", subclass |-> <<>>, ret |-> Raise(NoError)]

\* the program after some of its class statements, the cache empty, and
\* every thread entering with the same cls and name
InitThreads ==
    /\ defined \in 1..Len(ClassOrder)
    /\ ncalls = 0
    /\ _MODEL_CACHE = <<>>
    /\ call = Idle
    /\ ret = Raise(NoError)
    /\ inst = NoInst
    /\ json = NoJson
    /\ ElemIdle
    /\ HeapIdle
    /\ NoCall
    /\ \E cls \in DefinedClasses : \E name \in Names :
          threads = [t \in 1..MaxThreads |-> Entered(cls, name)]

\* if _id in JSONModel._MODEL_CACHE: return JSONModel._MODEL_CACHE[_id]
CacheLookup(t) ==
    /\ threads[t].pc = "lookup"
    /\ LET th == threads[t]
       IN  threads' = [threads EXCEPT ![t] =
               IF Hashable(th.name) /\ <<th.name, th.cls>> \in DOMAIN _MODEL_CACHE
               THEN [th EXCEPT !.pc = "done", !.ret = Return(_MODEL_CACHE[<<th.name, th.cls>>])]
               ELSE [th EXCEPT !.pc = "search"]]
    /\ UNCHANGED recordVars
    /\ UNCHANGED elemVars
    /\ UNCHANGED heapVars
    /\ UNCHANGED callVars

\* the loop over itertools.chain((cls,), ClassHelpers.all_subclasses(cls)) up
\* to its first match, or to the raise after it
FamilySearch(t) ==
    /\ threads[t].pc = "search"
    /\ LET th == threads[t]
           Found(found) ==
               threads' = [threads EXCEPT ![t] =
                   IF found = <<>>
                   THEN [th EXCEPT !.pc = "done",
                                   !.ret = return_match(th.cls, th.name, _MODEL_CACHE, found).ret]
                   ELSE [th EXCEPT !.pc = "insert", !.subclass = found]]
       IN  Found(first_match(th.cls, th.name, <<th.cls>> \o all_subclasses(th.cls, defined)))
    /\ UNCHANGED recordVars
    /\ UNCHANGED elemVars
    /\ UNCHANGED heapVars
    /\ UNCHANGED callVars

\* JSONModel._MODEL_CACHE[(name, cls)] = subclass; return subclass
CacheInsert(t) ==
    /\ threads[t].pc = "insert"
    /\ LET th == threads[t]
           Inserted(r) ==
               /\ _MODEL_CACHE' = r.cache
               /\ threads' = [threads EXCEPT ![t] = [th EXCEPT !.pc = "done", !.ret = r.ret]]
       IN  Inserted(return_match(th.cls, th.name, _MODEL_CACHE, th.subclass))
    /\ UNCHANGED <<defined, ncalls, call, ret, inst, json>>
    /\ UNCHANGED elemVars
    /\ UNCHANGED heapVars
    /\ UNCHANGED callVars

NextThreads ==
    \/ \E t \in DOMAIN threads : CacheLookup(t)
    \/ \E t \in DOMAIN threads : FamilySearch(t)
    \/ \E t \in DOMAIN threads : CacheInsert(t)

SpecThreads == InitThreads /\ [][NextThreads]_vars

\* ------------------------------------------------------------------------
\* Properties of the descriptors (SpecElem)
\* ------------------------------------------------------------------------
\* C7 (alternates ordering): for a descriptor with alternates that is not
\* ignored, parse_value returns the primary parse when it succeeds; otherwise
\* the transformer of the first declared alternate whose own parse and
\* transformer both succeed, applied to that alternate's parse; and when no
\* alternate succeeds it raises one ModelElemError on the descriptor that
\* counts the alternates.
AlternatesOrdering ==
    (pc # "start" /\ IsModelElem(elem) /\ ~elem.ignored /\ Len(elem.alternates) > 0) =>
        LET primary == _parse_value(elem, raw)
            ownParse(i) == _parse_value(elem.alternates[i], raw)
            succeeds(i) == ownParse(i).ok /\ Call(elem.alternates[i].transformer, ownParse(i).val).ok
            winners == {i \in DOMAIN elem.alternates : succeeds(i)}
        IN  IF primary.ok THEN parsed = primary
            ELSE IF winners # {}
            THEN LET first == CHOOSE i \in winners : \A j \in winners : i <= j
                 IN  parsed = Call(elem.alternates[first].transformer, ownParse(first).val)
            ELSE /\ ~parsed.ok
                 /\ IsModelElemError(parsed.err)
                 /\ parsed.err.on = elem.origin
                 /\ parsed.err.n = Len(elem.alternates)

\* the primary parse and the first alternate fail, a later alternate succeeds
\* while a still later one would have succeeded too
AlternatesOrderingWitness ==
    /\ pc = "parsed"
    /\ IsModelElem(elem) /\ ~elem.ignored /\ Len(elem.alternates) = 3
    /\ ~_parse_value(elem, raw).ok
    /\ ~_parse_value(elem.alternates[1], raw).ok
    /\ _parse_value(elem.alternates[2], raw).ok
    /\ _parse_value(elem.alternates[3], raw).ok
    /\ parsed = Return(PyInt(1))

\* C8 (fixed-arity tuple fidelity): a descriptor tuple[T1, ..., Tn] parses an
\* ordered collection of n elements whose elements each parse as their Ti
\* into the n-tuple of the parsed elements, in order, which validate accepts
\* unchanged, and fails with a ModelElemError on every input that is no
\* collection of exactly n elements.
FixedTupleFidelity ==
    (pc # "start" /\ elem \in FixedTuples) =>
        LET n == Len(elem.generics)
            each(i) == _parse_value(elem.generics[i], Items(raw)[i])
        IN  /\ (IsCollection(raw) /\ Len(Items(raw)) = n /\ \A i \in 1..n : each(i).ok)
                => /\ parsed = Return(PyTuple([i \in 1..n |-> each(i).val]))
                   /\ pc = "validated" => checked = parsed
            /\ (IsCollection(raw) /\ Len(Items(raw)) # n)
                => ~parsed.ok /\ IsModelElemError(parsed.err)
            /\ ~IsCollection(raw)
                => ~parsed.ok /\ IsModelElemError(parsed.err)

\* tuple[str, int, bool] has parsed the list ["x", 1, True] into ("x", 1, True)
FixedTupleFidelityWitness ==
    /\ pc = "parsed"
    /\ elem \in FixedTuples
    /\ Len(elem.generics) = 3
    /\ <<elem.generics[1].origin, elem.generics[2].origin, elem.generics[3].origin>>
         = <<"str", "int", "bool">>
    /\ raw = PyList(<<PyStr("x"), PyInt(1), PyBool(TRUE)>>)
    /\ parsed = Return(PyTuple(<<PyStr("x"), PyInt(1), PyBool(TRUE)>>))

\* C10 (flag-enum fidelity): for an IntFlag descriptor and an integer n that is
\* the bitwise OR of a set of declared flags, parse_value returns the flag
\* value holding exactly those flags, and dump_value of it equals n.
FlagEnumFidelity ==
    (pc # "start" /\ elem.origin \in IntFlagClasses /\ raw.t = "int") =>
        \A names \in SUBSET {FlagMembers(elem.origin)[i].name : i \in DOMAIN FlagMembers(elem.origin)} :
            raw.v = SumValues(FlagMembers(elem.origin), names) =>
                /\ parsed = Return(PyFlag(elem.origin, names, raw.v))
                /\ pc = "dumped" => dumped.ok /\ PyEq(dumped.val, raw)

\* READ | EXECUTE has been parsed from 5 and dumped again
FlagEnumFidelityWitness ==
    /\ pc = "dumped"
    /\ elem.origin = "Permissions"
    /\ raw = PyInt(5)
    /\ parsed.ok /\ parsed.val.names = {"READ", "EXECUTE"}
    /\ dumped.ok /\ PyEq(dumped.val, PyInt(5))

\* C11 (duration round trip): a timedelta descriptor parses an integer
\* number m of milliseconds, m a non-negative whole number of seconds, into
\* the duration of m milliseconds, and dump_value of that duration is m again.
DurationRoundTrip ==
    (pc # "start" /\ elem.origin = "timedelta" /\ raw.t = "int" /\ raw.v >= 0 /\ raw.v % 1000 = 0) =>
        /\ parsed = Return(PyTimedelta(raw.v \div 86400000, (raw.v % 86400000) \div 1000, 0))
        /\ pc = "dumped" => dumped = Return(raw)

\* C14 (fresh default factory): every instance built without the
\* factory-defaulted field got its value from a factory call of its own,
\* made for that construction; its container is the object of no other
\* instance and not the object the class keeps in __defaults__, and holds
\* only the elements appended through the instance itself, whatever was
\* appended through other instances or to the object of the class, before
\* or after.
FreshDefaultFactory ==
    \A i \in DOMAIN holders :
        holders[i].omitted =>
            /\ heap[holders[i].made].by = "default_factory"
            /\ holders[i].made # defaults_object
            /\ holders[i].ref # defaults_object
            /\ \A j \in DOMAIN holders \ {i} :
                  holders[j].made # holders[i].made /\ holders[j].ref # holders[i].ref
            /\ heap[holders[i].ref].v = holders[i].own

\* two instances built without the field, the first one appended to, and
\* the object of the class appended to before the second was built
FreshDefaultFactoryWitness ==
    /\ Len(holders) >= 2
    /\ holders[1].omitted /\ holders[2].omitted
    /\ holders[2].ref > holders[1].ref
    /\ heap[holders[1].ref].v = <<PyInt(2)>>
    /\ heap[holders[2].ref].v = <<>>
    /\ heap[defaults_object].v # <<>>

\* ------------------------------------------------------------------------
\* Properties of the records (Spec)
\* ------------------------------------------------------------------------
\* C2 (polymorphic dispatch): when the input of from_json (or of a direct
\* resolution) carries a discriminator value, and that value equals the
\* identity of a type of the family of the base that is defined by then, the
\* call resolves to that type: a resolution returns it, from_json returns an
\* instance of it when the fields of the input are valid for it, and fails
\* for a reason other than resolution when they are not. When the value
\* matches no type of the family the call fails with the JSONModelError
\* "Unable to find suitable subclass" and no instance is returned.
PolymorphicDispatch ==
    (call.op \in {"from_json", "resolve"} /\ Has(call.o, _name_field(call.cls))) =>
        LET name == Get(call.o, _name_field(call.cls))
            family == {T \in DefinedClasses : call.cls \in ClassAttrs[T].ancestors}
            matching == {T \in family : PyEq(name, model_identity(T))}
        IN  IF matching = {}
            THEN /\ ~ret.ok
                 /\ IsJSONModelError(ret.err)
                 /\ ret.err.msg = "Unable to find suitable subclass"
                 /\ call.op = "from_json" => inst = NoInst
            ELSE IF call.op = "resolve"
            THEN ret.ok /\ ret.val.v \in matching
            ELSE /\ ret.ok => (ret.val.cls \in matching /\ inst.obj = ret.val)
                 /\ ~ret.ok => ret.err.msg \notin {"Unable to find suitable subclass",
                                                   "Object is missing name field"}
                 /\ \A T \in matching :
                       LET model == json_model(T)
                           passes(j) ==
                               IF Has(call.o, model[j].k)
                               THEN LET p == parse_value(model[j].v, Get(call.o, model[j].k))
                                    IN  p.ok /\ validate(model[j].v, p.val).ok
                               ELSE has_default(model[j].v)
                                    /\ validate(model[j].v, default(model[j].v)).ok
                       IN  (\A j \in DOMAIN model : passes(j)) => ret.ok

\* BaseModel.from_json has returned an instance of SubModelA for the
\* discriminator "SubA", the identity that SubModelA overrides
PolymorphicDispatchWitness ==
    /\ call.op = "from_json"
    /\ call.cls = "BaseModel"
    /\ Has(call.o, "__name") /\ Get(call.o, "__name") = PyStr("SubA")
    /\ ret.ok
    /\ ret.val.cls = "SubModelA"

\* C3 as stated (required-field rejection): a construction, direct or through
\* from_json, whose input lacks a required field of the target type fails with
\* a JSONModelError that names a missing required field, whatever the other
\* keys and values are.
RequiredFieldAlwaysNamed ==
    (call.op \in {"construct", "from_json"}) =>
        LET name == IF Has(call.o, _name_field(call.cls)) THEN <<Get(call.o, _name_field(call.cls))>>
                    ELSE IF name_field_required(call.cls) THEN <<>>
                    ELSE <<model_identity(call.cls)>>
            family == {T \in DefinedClasses : call.cls \in ClassAttrs[T].ancestors}
            targets == IF call.op = "construct" THEN {call.cls}
                       ELSE {T \in family : name # <<>> /\ PyEq(name[1], model_identity(T))}
        IN  \A T \in targets :
                LET model == json_model(T)
                    missing == {i \in DOMAIN model : ~Has(call.o, model[i].k) /\ ~has_default(model[i].v)}
                IN  missing # {} =>
                        /\ ~ret.ok
                        /\ IsJSONModelError(ret.err)
                        /\ ret.err.msg = "Missing required key"
                        /\ ret.err.key \in {model[i].k : i \in missing}

\* C1 (round trip): for an instance r built with every schema field of its
\* type supplied, type(r).from_json(r.to_json()) succeeds and returns an
\* instance of r's type whose field values equal r's.
RoundTrip ==
    (/\ call.op = "from_json"
     /\ call.of_dump
     /\ \A i \in DOMAIN json_model(inst.obj.cls) : Has(inst.o, json_model(inst.obj.cls)[i].k)) =>
        /\ ret.ok
        /\ ret.val.cls = inst.obj.cls
        /\ \A i \in DOMAIN json_model(inst.obj.cls) :
              LET k == json_model(inst.obj.cls)[i].k
              IN  Has(ret.val.v, k) /\ PyEq(Get(ret.val.v, k), Get(inst.obj.v, k))

\* C4 (extra-field rejection): a construction, direct or through from_json,
\* whose input has a key that is no schema field of the target type (and is
\* not the discriminator key) fails with a JSONModelError unless ignore_extra
\* is set; with ignore_extra set and the known fields valid it succeeds, the
\* known fields hold their parsed values and the instance has no attribute
\* for the unknown key.
ExtraFieldRejection ==
    (call.op \in {"construct", "from_json"}) =>
        LET name == IF Has(call.o, _name_field(call.cls)) THEN <<Get(call.o, _name_field(call.cls))>>
                    ELSE IF name_field_required(call.cls) THEN <<>>
                    ELSE <<model_identity(call.cls)>>
            family == {T \in DefinedClasses : call.cls \in ClassAttrs[T].ancestors}
            targets == IF call.op = "construct" THEN {call.cls}
                       ELSE {T \in family : name # <<>> /\ PyEq(name[1], model_identity(T))}
        IN  \A T \in targets :
                LET model == json_model(T)
                    reserved == IF call.op = "from_json" THEN {_name_field(call.cls)} ELSE {}
                    extra == (Keys(call.o) \ Keys(model)) \ reserved
                    passes(j) == IF Has(call.o, model[j].k)
                                 THEN LET p == parse_value(model[j].v, Get(call.o, model[j].k))
                                      IN  p.ok /\ validate(model[j].v, p.val).ok
                                 ELSE has_default(model[j].v)
                                      /\ validate(model[j].v, default(model[j].v)).ok
                IN  extra # {} =>
                        IF ~call.ignore_extra
                        THEN ~ret.ok /\ IsJSONModelError(ret.err)
                        ELSE (\A j \in DOMAIN model : passes(j)) =>
                                /\ ret.ok
                                /\ Keys(ret.val.v) \cap extra = {}
                                /\ \A j \in DOMAIN model :
                                      Has(call.o, model[j].k) =>
                                          Get(ret.val.v, model[j].k)
                                            = parse_value(model[j].v, Get(call.o, model[j].k)).val

\* C5 (default omission): in the output of to_json a field whose value equals
\* its schema default is absent when the type does not include defaults and
\* present with its dumped value when it does; a field whose value differs
\* from its default is present with its dumped value, unless it dumps to None
\* and the type does not allow nulls.
DefaultOmission ==
    (call.op = "to_json") =>
        LET cls == inst.obj.cls
            model == json_model(cls)
            flag(attr) == lookup(cls, attr) = <<PyBool(TRUE)>>
            include_defaults == flag("__include_defaults_in_json_output__")
            allow_null == flag("__allow_null_json_output__")
        IN  \A i \in DOMAIN model :
                LET k == model[i].k
                    m == model[i].v
                    v == Get(inst.obj.v, k)
                    d == dump_value(m, v)
                    shown == Has(json.o, k) /\ d.ok /\ Get(json.o, k) = d.val
                IN  IF has_default(m) /\ PyEq(v, default(m))
                    THEN IF include_defaults
                         THEN (d.ok /\ (d.val # PyNone \/ allow_null)) => shown
                         ELSE ~Has(json.o, k)
                    ELSE (d.ok /\ (d.val # PyNone \/ allow_null)) => shown

\* C6 (discriminator in output): the output of to_json starts with the
\* discriminator key of the instance's type, whose value is the identity of
\* that type.
DiscriminatorInOutput ==
    (call.op = "to_json") =>
        /\ Len(json.o) > 0
        /\ json.o[1] = Field(_name_field(inst.obj.cls), model_identity(inst.obj.cls))

AbsentDiscriminator ==
    (call.op = "from_json" /\ ~Has(call.o, _name_field(call.cls))) =>
        IF name_field_required(call.cls)
        THEN /\ ret = Raise(JSONModelError("Object is missing name field", call.cls,
                                           _name_field(call.cls)))
             /\ ~call.of_dump => inst = NoInst
        ELSE LET identity == model_identity(call.cls)
                 with_name == <<Field(_name_field(call.cls), identity)>> \o call.o
                 selected == _extract_subclass_by_name(call.cls, identity, _MODEL_CACHE, defined).ret
             IN  /\ ret = from_json(call.cls, with_name, call.ignore_extra, _MODEL_CACHE, defined).ret
                 /\ selected.ok
                 /\ ret.ok => ret.val.cls = selected.val
                 /\ ~ret.ok => ret.err.msg \notin {"Object is missing name field",
                                                   "Unable to find suitable subclass"}

\* SimpleModel, which does not require the discriminator, has built an
\* instance of itself from an object without it
AbsentDiscriminatorWitness ==
    /\ call.op = "from_json"
    /\ call.cls = "SimpleModel"
    /\ ~name_field_required(call.cls)
    /\ ~Has(call.o, "__name")
    /\ ret.ok
    /\ ret.val.cls = "SimpleModel"

\* C13 (configurable discriminator key): from_json reads the discriminator
\* from the key that the family of the class called configures with
\* __name_field__ (BaseModel: "__type"), and from "__name" when it configures
\* none: with that key in the object, the call does not fail for a missing
\* discriminator, it fails with "Unable to find suitable subclass" when the
\* value under the key is the identity of no type of the family, and an
\* instance it returns is of a type whose identity is that value.
ConfiguredDiscriminatorKey ==
    (call.op = "from_json") =>
        LET configured == lookup(call.cls, "__name_field__")
            key == IF configured # <<>> THEN configured[1].v ELSE "__name"
            family == {T \in DefinedClasses : call.cls \in ClassAttrs[T].ancestors}
        IN  Has(call.o, key) =>
                LET matching == {T \in family : PyEq(Get(call.o, key), model_identity(T))}
                IN  IF matching = {}
                    THEN ~ret.ok /\ ret.err.msg = "Unable to find suitable subclass"
                    ELSE /\ ret.ok => ret.val.cls \in matching
                         /\ ~ret.ok => ret.err.msg \notin {"Unable to find suitable subclass",
                                                           "Object is missing name field"}

\* C15 (inheritance merge and override): the schema of a class holds every
\* field, reserved names apart, that the class or one of its ancestor classes
\* declares, with the type of the nearest declaration, the class's own first;
\* and a construction of a class that redeclares an inherited field with a
\* default, given no value for the field, does not fail on that field and
\* yields the default of the class, not the inherited one.
InheritanceMergeAndOverride ==
    \A T \in DefinedClasses :
        LET lineage == {A \in DefinedClasses : A \in ClassAttrs[T].ancestors}
            declares(A, k) == Has(Decl(A).annotations, k)
            inherited(k) == \E A \in lineage \ {T} : declares(A, k)
            origin_of(anno) == IF IsModelElem(anno) THEN anno.origin ELSE _BaseModelElem(anno).origin
            nearest(k) == CHOOSE A \in lineage :
                              /\ declares(A, k)
                              /\ \A B \in lineage : declares(B, k) => A \in ClassAttrs[B].ancestors
                                                                       \/ B \notin ClassAttrs[A].ancestors
        IN  /\ \A A \in lineage : \A k \in Keys(Decl(A).annotations) :
                  ~startswith_underscore(k) =>
                      /\ Has(json_model(T), k)
                      /\ Get(json_model(T), k).origin
                            = origin_of(Get(Decl(nearest(k)).annotations, k))
            /\ \A k \in Keys(Decl(T).annotations) :
                  (/\ inherited(k)
                   /\ Has(Decl(T).namespace, k)
                   /\ call.op = "construct" /\ call.cls = T /\ ~Has(call.o, k)) =>
                      /\ ret.ok => Get(ret.val.v, k) = Get(Decl(T).namespace, k)
                      /\ ~ret.ok => ret.err.key # k

\* SubModelA, built without shared_field, holds its own default 10 where
\* BaseModel declares 0
InheritanceMergeAndOverrideWitness ==
    /\ call.op = "construct"
    /\ call.cls = "SubModelA"
    /\ ~Has(call.o, "shared_field")
    /\ ret.ok
    /\ Get(ret.val.v, "shared_field") = PyInt(10)
    /\ Get(json_model("BaseModel"), "shared_field").default = <<PyInt(0)>>
    /\ Keys(json_model("SubModelA")) = {"base_field", "shared_field", "sub_a_field"}

\* C16 (concurrent resolution): when the threads resolve the same name against
\* the same class with the cache empty at the start, interleaved at cache
\* lookup, family search and cache insert, all the calls that have ended have
\* ended alike, and once one has returned a class the cache holds exactly
\* one entry, the one for (name, cls), and it is that class.
ConcurrentResolution ==
    \A t \in DOMAIN threads :
        threads[t].pc = "done" =>
            /\ \A u \in DOMAIN threads : threads[u].pc = "done" => threads[u].ret = threads[t].ret
            /\ threads[t].ret.ok =>
                   /\ DOMAIN _MODEL_CACHE = {<<threads[t].name, threads[t].cls>>}
                   /\ _MODEL_CACHE[<<threads[t].name, threads[t].cls>>] = threads[t].ret.val

\* two threads have both missed the cache, both searched and both inserted,
\* and the class they returned is a subclass of the one asked
ConcurrentResolutionWitness ==
    /\ threads # <<>>
    /\ \A t \in DOMAIN threads : threads[t].pc = "done" /\ threads[t].ret.ok
    /\ \E t, u \in DOMAIN threads :
          /\ t # u
          /\ threads[t].subclass # <<>>
          /\ threads[u].subclass # <<>>
          /\ threads[t].ret.val # threads[t].cls

\* C17 (conversion failures are ConversionErrors): for every descriptor and
\* every raw input, parse_value either returns a value or raises
\* ModelElemError; no other exception escapes it.
ConversionFailuresAreModelElemErrors ==
    pc # "start" => (parsed.ok \/ IsModelElemError(parsed.err))

\* C18 (field-attributed errors): when a call, direct or through from_json,
\* is given every required field of its target type and the value supplied
\* for some field fails conversion or validation, the call fails with a
\* JSONModelError "Model error on key" that names such a field and the target
\* type.
FieldAttributedErrors ==
    (call.op \in {"construct", "from_json"}) =>
        LET name == IF Has(call.o, _name_field(call.cls)) THEN <<Get(call.o, _name_field(call.cls))>>
                    ELSE IF name_field_required(call.cls) THEN <<>>
                    ELSE <<model_identity(call.cls)>>
            family == {T \in DefinedClasses : call.cls \in ClassAttrs[T].ancestors}
            targets == IF call.op = "construct" THEN {call.cls}
                       ELSE {T \in family : name # <<>> /\ PyEq(name[1], model_identity(T))}
        IN  \A T \in targets :
                LET model == json_model(T)
                    missing == {i \in DOMAIN model : ~Has(call.o, model[i].k) /\ ~has_default(model[i].v)}
                    failing == {i \in DOMAIN model :
                                   /\ Has(call.o, model[i].k)
                                   /\ ~validate(model[i].v, Get(call.o, model[i].k)).ok}
                IN  (missing = {} /\ failing # {}) =>
                        /\ ~ret.ok
                        /\ ret.err.exc = "JSONModelError"
                        /\ ret.err.msg = "Model error on key"
                        /\ ret.err.on = T
                        /\ ret.err.key \in {model[i].k : i \in failing}

\* C19 (ignored fields never fail): when the target type of a call, direct or
\* through from_json, has a field whose descriptor is marked ignored, and
\* every other field of it is supplied with a valid value or validly
\* defaulted and no key outside the schema is given, the call returns an
\* instance in which the ignored field is None, whether the key of the
\* ignored field is given, with any value, or not.
IgnoredFieldsNeverFail ==
    (call.op \in {"construct", "from_json"}) =>
        LET name == IF Has(call.o, _name_field(call.cls)) THEN <<Get(call.o, _name_field(call.cls))>>
                    ELSE IF name_field_required(call.cls) THEN <<>>
                    ELSE <<model_identity(call.cls)>>
            family == {T \in DefinedClasses : call.cls \in ClassAttrs[T].ancestors}
            targets == IF call.op = "construct" THEN {call.cls}
                       ELSE {T \in family : name # <<>> /\ PyEq(name[1], model_identity(T))}
        IN  \A T \in targets :
                LET model == json_model(T)
                    ignored == {i \in DOMAIN model : model[i].v.ignored}
                    passes(j) == IF Has(call.o, model[j].k)
                                 THEN validate(model[j].v, Get(call.o, model[j].k)).ok
                                 ELSE has_default(model[j].v)
                                      /\ validate(model[j].v, default(model[j].v)).ok
                IN  (/\ ignored # {}
                     /\ \A j \in DOMAIN model \ ignored : passes(j)
                     /\ Keys(call.o) \subseteq {model[j].k : j \in DOMAIN model} \cup {_name_field(call.cls)}) =>
                        /\ ret.ok
                        /\ \A i \in ignored : Get(ret.val.v, model[i].k) = PyNone

\* C20 (required iff no default): a construction that omits a field of its
\* type and supplies valid values for the fields before it fails with "Missing
\* required key" naming the field when no default was declared for the field,
\* and does not fail so when one was declared: a value in a class body of
\* the type or of an ancestor, of any value, or a descriptor with a default or
\* a factory.
RequiredIffNoDefault ==
    (call.op = "construct") =>
        LET model == json_model(call.cls)
            lineage == {C \in DefinedClasses : C \in ClassAttrs[call.cls].ancestors}
            declared(k) ==
                \E C \in lineage :
                    \/ Has(Decl(C).namespace, k)
                    \/ /\ Has(Decl(C).annotations, k)
                       /\ IsModelElem(Get(Decl(C).annotations, k))
                       /\ has_default(Get(Decl(C).annotations, k))
            passes(j) == IF Has(call.o, model[j].k)
                         THEN validate(model[j].v, Get(call.o, model[j].k)).ok
                         ELSE has_default(model[j].v) /\ validate(model[j].v, default(model[j].v)).ok
        IN  \A i \in DOMAIN model :
                ~Has(call.o, model[i].k) =>
                    IF declared(model[i].k)
                    THEN ret # Raise(JSONModelError("Missing required key", call.cls, model[i].k))
                    ELSE (\A j \in 1..(i - 1) : passes(j)) =>
                            ret = Raise(JSONModelError("Missing required key", call.cls, model[i].k))

\* C21 (primitive exactness): for a descriptor of bool, int, float or str with
\* no alternates that is not ignored, parse_value returns the input unchanged
\* when the input is of exactly that type, returns the float of an int input
\* for a float descriptor, and raises ModelElemError on every other input, a
\* bool given to an int or float descriptor included.
PrimitiveExactness ==
    (/\ pc # "start"
     /\ elem.origin \in {"bool", "int", "float", "str"}
     /\ elem.alternates = <<>>
     /\ ~elem.ignored) =>
        IF raw.t = elem.origin THEN parsed = Return(raw)
        ELSE IF elem.origin = "float" /\ raw.t = "int" THEN parsed = Return(PyFloat(raw.v))
        ELSE ~parsed.ok /\ IsModelElemError(parsed.err)

\* C22 (union ordering): for a Union descriptor with no alternates that is not
\* ignored, parse_value returns what the first child, in declared order, whose
\* parse succeeds returns; and when no child's parse succeeds it raises one
\* ModelElemError on the union.
UnionOrdering ==
    (/\ pc # "start"
     /\ is_union_type(elem.origin)
     /\ elem.alternates = <<>>
     /\ ~elem.ignored) =>
        LET succeeds == {i \in DOMAIN elem.generics : parse_value(elem.generics[i], raw).ok}
        IN  IF succeeds # {}
            THEN parsed = parse_value(elem.generics[CHOOSE i \in succeeds : \A j \in succeeds : i <= j], raw)
            ELSE parsed = Raise(ModelElemError(elem, "does not meet any of the allowed types"))

\* C23 (cache monotonicity): no step of the program removes an entry of
\* _MODEL_CACHE or maps its key to another class, and a resolution of a key
\* that the cache holds returns the class the cache holds for it.
CacheMonotonicity ==
    [][/\ \A key \in DOMAIN _MODEL_CACHE :
             key \in DOMAIN _MODEL_CACHE' /\ _MODEL_CACHE'[key] = _MODEL_CACHE[key]
       /\ (/\ call'.op = "resolve"
           /\ call.op = "idle"
           /\ <<Get(call'.o, "__name"), call'.cls>> \in DOMAIN _MODEL_CACHE) =>
              ret' = Return([t |-> "type", v |-> _MODEL_CACHE[<<Get(call'.o, "__name"), call'.cls>>]])]_vars

\* the second call, a resolution of "SubA" against BaseModel, has returned
\* and the cache holds its entry next to the entry of the first call
CacheMonotonicityWitness ==
    /\ ncalls = 2
    /\ call.op = "resolve"
    /\ call.cls = "BaseModel"
    /\ ret = Return([t |-> "type", v |-> "SubModelA"])
    /\ Cardinality(DOMAIN _MODEL_CACHE) = 2
    /\ _MODEL_CACHE[<<PyStr("SubA"), "BaseModel">>] = "SubModelA"

\* C24 (cache transparency): whatever classes were defined and whatever calls
\* filled the cache before, a resolution of name against cls has the outcome
\* of the search over cls and the classes defined so far that derive from it,
\* run with no cache: the same class, or the same failure.
CacheTransparency ==
    call.op = "resolve" =>
        LET name == Get(call.o, "__name")
            uncached == return_match(call.cls, name, <<>>,
                                     first_match(call.cls, name,
                                                 <<call.cls>> \o all_subclasses(call.cls, defined))).ret
        IN  ret = IF uncached.ok THEN Return([t |-> "type", v |-> uncached.val]) ELSE uncached

\* the second call resolves "SubA" against SubModelB and fails, with the
\* cache holding the entry that an earlier resolution against BaseModel made
\* for the same name
CacheTransparencyWitness ==
    /\ ncalls = 2
    /\ call.op = "resolve"
    /\ call.cls = "SubModelB"
    /\ Get(call.o, "__name") = PyStr("SubA")
    /\ ~ret.ok
    /\ DOMAIN _MODEL_CACHE = {<<PyStr("SubA"), "BaseModel">>}

\* C28 (cache soundness): after every step each entry (name, cls) -> T of
\* _MODEL_CACHE has T a declared class that has been defined (never a glue
\* class), T is cls or derives from cls, and model_identity() of T equals
\* name; a resolution that raises leaves the cache as it was.
CacheSoundness ==
    [][/\ \A key \in DOMAIN _MODEL_CACHE' :
             /\ _MODEL_CACHE'[key] \in DefinedClasses
             /\ ~IsGlue(_MODEL_CACHE'[key])
             /\ key[2] \in ClassAttrs[_MODEL_CACHE'[key]].ancestors
             /\ PyEq(key[1], model_identity(_MODEL_CACHE'[key]))
       /\ (call.op = "idle" /\ call'.op = "resolve" /\ ~ret'.ok) =>
              _MODEL_CACHE' = _MODEL_CACHE]_vars

\* the cache holds SubModelA for "SubA" under BaseModel, a class further
\* down than the base it was resolved against and passed over its glue
\* class, and the second call, a resolution of a name no class has, has
\* raised
CacheSoundnessWitness ==
    /\ ncalls = 2
    /\ call.op = "resolve"
    /\ Get(call.o, "__name") = PyStr("Unknown")
    /\ ~ret.ok
    /\ DOMAIN _MODEL_CACHE = {<<PyStr("SubA"), "BaseModel">>}
    /\ _MODEL_CACHE[<<PyStr("SubA"), "BaseModel">>] = "SubModelA"
    /\ model_identity(glue_name("SubModelA")) = PyStr("SubA")

\* C25 (all-or-nothing construction): a construction or from_json call that
\* raises has set no attribute on the object it was constructing and leaves
\* the caller without an instance; one that returns has set exactly the
\* attributes of the instance it returns, one per schema field, every schema
\* field has a value that validates (the one supplied or the default), and
\* for direct construction no key outside the schema was passed.
AllOrNothingConstruction ==
    (call.op \in {"construct", "from_json"}) =>
        IF ~ret.ok
        THEN /\ assigned = <<>>
             /\ ~call.of_dump => inst = NoInst
        ELSE LET model == get_model(ret.val.cls)
             IN  /\ assigned = ret.val.v
                 /\ ~call.of_dump => inst.obj = ret.val
                 /\ [i \in DOMAIN assigned |-> assigned[i].k] = [i \in DOMAIN model |-> model[i].k]
                 /\ call.op = "construct" =>
                       /\ \A i \in DOMAIN model :
                             IF Has(call.o, model[i].k)
                             THEN validate(model[i].v, Get(call.o, model[i].k)) = Return(assigned[i].v)
                             ELSE /\ has_default(model[i].v)
                                  /\ validate(model[i].v, default(model[i].v)) = Return(assigned[i].v)
                       /\ \A k \in Keys(call.o) : truthy(k) => k \in Keys(model)

\* SimpleModel(string_field="a", bool_field=..., extra_field="oops") has
\* raised: the first schema field has a valid value, the second, int_field,
\* is required and missing, and a key outside the schema was passed as well
AllOrNothingConstructionWitness ==
    /\ call.op = "construct"
    /\ call.cls = "SimpleModel"
    /\ ~ret.ok
    /\ get_model("SimpleModel")[1].k = "string_field"
    /\ Has(call.o, "string_field")
    /\ validate(get_model("SimpleModel")[1].v, Get(call.o, "string_field")).ok
    /\ ~Has(call.o, "int_field")
    /\ Has(call.o, "extra_field")
    /\ assigned = <<>>
    /\ inst = NoInst

ConstructorCall ==
    IF call.op = "construct" THEN <<[cls |-> call.cls, values |-> call.o]>>
    ELSE IF call.op # "from_json" THEN <<>>
    ELSE IF ~_extract_subclass(call.cls, call.o, <<>>, defined).ret.ok THEN <<>>
    ELSE IF ~parse_json(_extract_subclass(call.cls, call.o, <<>>, defined).ret.val, call.o).ok THEN <<>>
    ELSE <<[cls |-> _extract_subclass(call.cls, call.o, <<>>, defined).ret.val,
            values |-> parse_json(_extract_subclass(call.cls, call.o, <<>>, defined).ret.val,
                                  call.o).val]>>

\* C29 (error precedence): a construction whose keyword values leave some
\* schema field missing without a default, or with a value that does not
\* validate, raises a JSONModelError for the first such field in schema
\* order, "Missing required key" or "Model error on key" as the case is for
\* that field, whatever later fields and keys outside the schema are like;
\* the error for keys outside the schema is raised only when every schema
\* field has passed.
ErrorPrecedence ==
    \A i \in DOMAIN ConstructorCall :
        LET cls == ConstructorCall[i].cls
            values == ConstructorCall[i].values
            model == get_model(cls)
            missing(j) == ~Has(values, model[j].k) /\ ~has_default(model[j].v)
            invalid(j) == ~missing(j) /\ ~validate(model[j].v,
                                                   IF Has(values, model[j].k)
                                                   THEN Get(values, model[j].k)
                                                   ELSE default(model[j].v)).ok
            failing == {j \in DOMAIN model : missing(j) \/ invalid(j)}
            first == CHOOSE j \in failing : \A l \in failing : j <= l
            extra == {k \in Keys(values) : k \notin Keys(model)}
        IN  IF failing # {}
            THEN ret = Raise(JSONModelError(IF missing(first) THEN "Missing required key"
                                            ELSE "Model error on key", cls, model[first].k))
            ELSE IF extra # {}
            THEN ret = Raise(JSONModelError("The following keys are not found in the model", cls, ""))
            ELSE ret.ok

\* C27 (byte-blob dump): dump_value of a bytes value b returns a str, the
\* base64 text of b (in the standard alphabet or in the one with "-" and
\* "_"), and parse_value of that str returns b.
ByteBlobDump ==
    (pc = "dumped" /\ elem.origin = "bytes") =>
        /\ dumped.ok
        /\ dumped.val.t = "str"
        /\ dumped.val.v \in {JoinChars(b64_quads(parsed.val.v, Base64Alphabet)),
                             JoinChars(b64_quads(parsed.val.v,
                                                 SubSeq(Base64Alphabet, 1, 62) \o <<"-", "_">>))}
        /\ parse_value(elem, dumped.val) = Return(parsed.val)

\* C30: parse then validate is stable: whenever parse_value succeeded on a
\* raw value, validate applied to the parsed result succeeds and returns a
\* value equal to it
ParseThenValidateStable ==
    (pc = "validated") => (checked.ok /\ PyEq(checked.val, parsed.val))

====
